---- MODULE Spec2Model ----
(***************************************************************************)
(* The turn engine of swarmjs (src/swarm/core.ts, the Swarm class with the *)
(* observability hooks, lines 369-885): Swarm.run, Swarm.runAndStream,     *)
(* Swarm.handleToolCalls, Swarm.handleFunctionResult and                   *)
(* Swarm.getChatCompletion, with mergeChunk and validateArguments of       *)
(* src/swarm/util.ts.  One run of the engine is one behaviour.             *)
(*                                                                         *)
(* Strings are sequences of atoms (themselves TLA+ strings), so that `+`   *)
(* on strings is \o.  Objects are functions from keys to values.           *)
(***************************************************************************)
EXTENDS Integers, Sequences, FiniteSets, TLC

(* ------------------------------ bounds -------------------------------- *)
\* largest finite max_turns a caller passes
MaxTurns == 3
\* most tool calls the backend puts into one assistant message
MaxCalls == 2
\* most tool calls the backend requests over one run
MaxTotalCalls == 2
\* most assistant messages carrying a tool_calls list (possibly empty) the
\* backend sends in one run
MaxToolTurns == 2
\* most messages, and most context updates, the second run makes
MaxOtherSteps == 1
\* most deltas merged into one accumulator by mergeChunk on its own
MaxDeltas == 3
\* most elements of an array handed to validateArguments
MaxItems == 2

(* --------------------------- JS-level helpers -------------------------- *)
\* the empty object {}
EmptyObject == [k \in {} |-> 0]

\* a faulty merge: the target's value survives a key collision
ObjectAssignTargetWins(target, source) ==
    [k \in (DOMAIN target) \cup (DOMAIN source) |->
        IF k \in DOMAIN target THEN target[k] ELSE source[k]]

\* Object.assign(target, source): own keys of source overwrite target's
ObjectAssign(target, source) ==
    [k \in (DOMAIN target) \cup (DOMAIN source) |->
        IF k \in DOMAIN source THEN source[k] ELSE target[k]]

\* Objects the caller and the runs share are held by reference: a reference
\* names the object, heap maps every reference to the object's present value.
MessagesRef == <<"messages">>
ContextRef == <<"context_variables">>

\* a faulty copy: the same object is handed back
cloneDeepShared(ref, by) == ref

\* cloneDeep(value): a new object, told from every other by what was copied
\* and who copied it
cloneDeep(ref, by) == Append(ref, by)

\* obj.push(...) / Object.assign(obj, ...): the object behind ref now has value
Store(h, ref, value) ==
    [r \in (DOMAIN h) \cup {ref} |-> IF r = ref THEN value ELSE h[r]]

\* message.tool_calls is null/undefined, or an array
Null == [null |-> TRUE, items |-> <<>>]
Array(s) == [null |-> FALSE, items |-> s]

\* partialResponse.agent before any handoff
Undefined == "undefined"

\* max_turns = Infinity (the default), or a number
Infinity == [inf |-> TRUE, n |-> 0]
Finite(k) == [inf |-> FALSE, n |-> k]
LessThan(x, mt) == mt.inf \/ x < mt.n

(* ------------------------------ agents --------------------------------- *)
\* src/unnamed/part_004 (swarm/types.ts): class Agent.  Two agents; agent A
\* registers tool "f", agent B registers tool "h"; either tool can hand off.
AgentNames == {"A", "B"}
ToolNames == {<<"f">>, <<"h">>}

\* B also registers tool "g", which the backend never asks for.
Agent(name) ==
    [name |-> name,
     model |-> IF name = "A" THEN "gpt-4o" ELSE "gpt-4o-mini",
     \* A: a static string; B: a function of the context variables
     dynamic_instructions |-> (name = "B"),
     functions |-> IF name = "A" THEN <<(<<"f">>)>> ELSE <<(<<"h">>), (<<"g">>)>>]

\* const CTX_VARS_NAME = 'context_variables'
CTX_VARS_NAME == "context_variables"

\* ParameterSchema: type and required; items and properties where they apply
Required(param) == [param EXCEPT !.required = TRUE]

NumberParam == [type |-> "number", required |-> FALSE]
StringParam == [type |-> "string", required |-> FALSE]
ObjectParam(properties) ==
    [type |-> "object", required |-> FALSE, properties |-> properties]
ArrayParam(items) == [type |-> "array", required |-> FALSE, items |-> items]
BooleanParam == [type |-> "boolean", required |-> FALSE]

\* a parameter with an enum: the values it may take
Enum(param, values) ==
    [k \in (DOMAIN param) \cup {"enum"} |-> IF k = "enum" THEN values ELSE param[k]]

\* the descriptor of a tool: every tool has a required parameter x of type
\* number; h also declares the reserved parameter, as optional, and g declares
\* it as required
Descriptor(fname) ==
    [name |-> fname,
     parameters |->
        IF fname = <<"h">>
        THEN [x |-> Required(NumberParam),
              context_variables |-> ObjectParam(EmptyObject)]
        ELSE IF fname = <<"g">>
        THEN [x |-> Required(NumberParam),
              context_variables |-> Required(ObjectParam(EmptyObject))]
        ELSE [x |-> Required(NumberParam)]]

(* --------------------------- Schema validation ------------------------- *)
\* JSON values are tagged with their runtime type (typeof / Array.isArray)
Num(n) == [type |-> "number", v |-> n]
Str(n) == [type |-> "string", v |-> n]
Bool(b) == [type |-> "boolean", v |-> b]

\* the argument payloads the backend produces (function.arguments)
ArgsValid == <<"{", "x:1", "}">>
ArgsMissing == <<"{", "}">>
ArgsMalformed == <<"{", "x:1">>
ArgStrings == {ArgsValid, ArgsMissing, ArgsMalformed}

\* a faulty parse: text that is no JSON is read as an empty object
JSONParseLenient(s) ==
    IF s = ArgsValid THEN [threw |-> FALSE, value |-> [x |-> Num(1)]]
    ELSE [threw |-> FALSE, value |-> EmptyObject]

\* JSON.parse on the payloads above: a SyntaxError, or the parsed object
JSONParse(s) ==
    IF s = ArgsValid THEN [threw |-> FALSE, value |-> [x |-> Num(1)]]
    ELSE IF s = ArgsMissing THEN [threw |-> FALSE, value |-> EmptyObject]
    ELSE [threw |-> TRUE, value |-> EmptyObject]

\* objects and arrays, tagged like the other JSON values
Obj(fields) == [type |-> "object", v |-> fields]
Arr(items) == [type |-> "array", v |-> items]

\* Object.entries lists the own keys of an object in insertion order; objects
\* here are filled in this order
KeyOrder ==
    <<"constructor", "context_variables", "a", "b", "c", "p", "o", "q", "x", "y">>

KeysOf(object) ==
    LET Own(key) == key \in DOMAIN object
    IN SelectSeq(KeyOrder, Own)

\* what every object inherits from Object.prototype (one name of them)
Inherited == {"constructor"}

\* key in object: own keys and inherited ones
In(key, object) == key \in DOMAIN object \/ key \in Inherited

\* the index of an array element as it is written into a path
IndexNames == <<"0", "1", "2", "3">>

Threw(message) == [threw |-> TRUE, message |-> message, value |-> EmptyObject]
Returned(value) == [threw |-> FALSE, message |-> <<>>, value |-> value]

\* path ? `${path}.${key}` : key
PropertyPath(path, key) == IF path # <<>> THEN path \o <<".", key>> ELSE <<key>>

\* validateValue(value, param, path): the type, then the elements of an array
\* (when the schema has items), or the required properties of an object and
\* then each of its own properties (when the schema has properties); the
\* first failure is thrown; a value that is neither gets the enum check
RECURSIVE validateValue(_, _, _)
RECURSIVE ValidateItems(_, _, _, _, _)
RECURSIVE ValidateProperties(_, _, _, _, _)
validateValue(value, param, path) ==
    IF param.type # value.type
    THEN Threw(<<"Invalid type at '">> \o path
               \o <<"': expected '", param.type, "', got '", value.type, "'">>)
    ELSE IF param.type = "array" /\ "items" \in DOMAIN param
    THEN ValidateItems(value.v, param.items, path, 1, <<>>)
    ELSE IF param.type = "object" /\ "properties" \in DOMAIN param
    THEN LET Missing(key) == param.properties[key].required /\ ~In(key, value.v)
             requiredProps == SelectSeq(KeysOf(param.properties), Missing)
         IN IF requiredProps # <<>>
            THEN Threw(<<"Missing required property at '">>
                       \o PropertyPath(path, Head(requiredProps)) \o <<"'">>)
            ELSE ValidateProperties(value.v, param.properties, path,
                                    KeysOf(value.v), EmptyObject)
    ELSE IF "enum" \in DOMAIN param /\ value.v \notin param.enum
    THEN Threw(<<"Invalid value at '">> \o path \o <<"': expected one of [...]">>)
    ELSE Returned(value)

\* value.map((item, index) => validateValue(item, param.items, `${path}[${index}]`))
ValidateItems(items, param, path, index, validatedItems) ==
    IF index > Len(items) THEN Returned(Arr(validatedItems))
    ELSE LET r == validateValue(items[index], param,
                                path \o <<"[", IndexNames[index], "]">>)
         IN IF r.threw THEN r
            ELSE ValidateItems(items, param, path, index + 1,
                               Append(validatedItems, r.value))

\* for (const [key, propValue] of Object.entries(value)): a property the
\* schema does not know is copied, the others are validated.  (The lookup
\* param.properties[key] finds inherited properties too: an own key of value
\* with an inherited name gets a schema that has no type.)
ValidateProperties(object, properties, path, keys, validatedObj) ==
    IF keys = <<>> THEN Returned(Obj(validatedObj))
    ELSE LET key == Head(keys)
             r == validateValue(object[key], properties[key], PropertyPath(path, key))
         IN IF key \notin DOMAIN properties /\ key \in Inherited
            THEN Threw(<<"Cannot read properties of undefined (reading 'toLowerCase')">>)
            ELSE IF key \notin DOMAIN properties
            THEN ValidateProperties(object, properties, path, Tail(keys),
                                    ObjectAssign(validatedObj, (key :> object[key])))
            ELSE IF r.threw THEN r
            ELSE ValidateProperties(object, properties, path, Tail(keys),
                                    ObjectAssign(validatedObj, (key :> r.value)))

\* the schema validateArguments builds around the descriptor's parameters
RootSchema(properties) ==
    [type |-> "object", properties |-> properties, required |-> FALSE]

\* a faulty validateValue: required properties are not checked
ValidateValueNoRequired(value, properties) ==
    LET r == validateValue(Obj(value),
                           RootSchema([k \in DOMAIN properties |->
                                          [properties[k] EXCEPT !.required = FALSE]]),
                           <<>>)
    IN [threw |-> r.threw, message |-> r.message,
        value |-> IF r.threw THEN value ELSE r.value.v]

\* validateValue(args, schema) as validateArguments calls it: on the root
\* object schema, with the empty path
ValidateValue(value, properties) ==
    LET r == validateValue(Obj(value), RootSchema(properties), <<>>)
    IN [threw |-> r.threw, message |-> r.message,
        value |-> IF r.threw THEN value ELSE r.value.v]

\* validateArguments: failures are wrapped with the function's name
ValidateArguments(args, descriptor) ==
    LET r == ValidateValue(args, descriptor.parameters) IN
    IF r.threw
    THEN [threw |-> TRUE, value |-> args,
          message |-> <<"Validation failed for function '">> \o descriptor.name
                      \o <<"': ">> \o r.message]
    ELSE r

(* ------------------------------ tool results --------------------------- *)
\* What a tool function hands back (src/unnamed/part_004, AgentFunction.func):
\* a string, an Agent, a Result, a thrown error / rejected promise, or a value
\* String() cannot convert.
ContextUpdates == {[a |-> 1], [a |-> 2], [b |-> 2]}

RawString == [kind |-> "string", value |-> <<"ok">>, agent |-> Undefined,
              context_variables |-> EmptyObject]
RawAgent(b) == [kind |-> "agent", value |-> <<>>, agent |-> b,
                context_variables |-> EmptyObject]
RawResult(u, b) == [kind |-> "result", value |-> <<"done">>, agent |-> b,
                    context_variables |-> u]
RawThrow == [kind |-> "throw", value |-> <<"boom">>, agent |-> Undefined,
             context_variables |-> EmptyObject]
RawUncoercible == [kind |-> "uncoercible", value |-> <<>>, agent |-> Undefined,
                   context_variables |-> EmptyObject]

RawResults ==
    {RawString, RawThrow, RawUncoercible}
    \cup {RawAgent(b) : b \in AgentNames}
    \cup {RawResult(u, Undefined) : u \in ContextUpdates}
    \cup {RawResult([b |-> 2], "B")}

\* Swarm.handleFunctionResult: a Result verbatim, an Agent wrapped as a
\* handoff Result, anything else through String(); String() failing throws.
handleFunctionResult(result) ==
    IF result.kind = "result"
    THEN [threw |-> FALSE, message |-> <<>>,
          result |-> [value |-> result.value, agent |-> result.agent,
                      context_variables |-> result.context_variables]]
    ELSE IF result.kind = "agent"
    THEN [threw |-> FALSE, message |-> <<>>,
          result |-> [value |-> <<"{assistant:", result.agent, "}">>,
                      agent |-> result.agent,
                      context_variables |-> EmptyObject]]
    ELSE IF result.kind = "string"
    THEN [threw |-> FALSE, message |-> <<>>,
          result |-> [value |-> result.value, agent |-> Undefined,
                      context_variables |-> EmptyObject]]
    ELSE [threw |-> TRUE, message |-> <<"Cannot convert object to primitive value">>,
          result |-> [value |-> <<>>, agent |-> Undefined,
                      context_variables |-> EmptyObject]]

(* --------------------- handleToolCalls, per tool call ------------------ *)
\* const partialResponse = new Response({messages: [], agent: undefined, ...})
NewPartialResponse ==
    [messages |-> <<>>, agent |-> Undefined, context_variables |-> EmptyObject]

\* a faulty lookup: the name is not checked
InFunctionMapUnchecked(name, functions) == TRUE

\* a faulty lookup: the functions of every agent are found
InFunctionMapOfAllAgents(name, functions) ==
    \E a \in AgentNames : \E i \in 1..Len(Agent(a).functions) :
        Agent(a).functions[i] = name

\* name in function_map
InFunctionMap(name, functions) == \E i \in 1..Len(functions) : functions[i] = name

\* a faulty tool message: the id of the call is not carried over
ToolMessageUntied(tool_call, content) ==
    [role |-> "tool", tool_call_id |-> 0,
     tool_name |-> tool_call.function.name, content |-> content]

ToolMessage(tool_call, content) ==
    [role |-> "tool", tool_call_id |-> tool_call.id,
     tool_name |-> tool_call.function.name, content |-> content]

\* content: `Error: Tool ${name} not found.`
NotFoundContent(name) == <<"Error: ", "Tool ">> \o name \o <<" not found", ".">>

\* content: `Error: ${e.message}`
ErrorContent(message) == <<"Error: ">> \o message

PushMessage(partial, msg) ==
    [partial EXCEPT !.messages = Append(@, msg)]

\* a faulty success branch: the Result's agent is recorded even when it has none
ApplyResultAgentReplaced(partial, tool_call, result) ==
    [messages |-> Append(partial.messages, ToolMessage(tool_call, result.value)),
     context_variables |-> ObjectAssign(partial.context_variables, result.context_variables),
     agent |-> result.agent]

\* the success branch: push the tool message, merge the Result's context
\* variables, record the Result's agent
ApplyResult(partial, tool_call, result) ==
    [messages |-> Append(partial.messages, ToolMessage(tool_call, result.value)),
     context_variables |-> ObjectAssign(partial.context_variables, result.context_variables),
     agent |-> IF result.agent # Undefined THEN result.agent ELSE partial.agent]

\* a faulty catch: a thrown error leaves no tool message
AfterInvocationSilent(partial, tool_call, raw) ==
    IF raw.kind = "throw"
    THEN partial
    ELSE LET r == handleFunctionResult(raw) IN
         IF r.threw
         THEN PushMessage(partial, ToolMessage(tool_call, ErrorContent(r.message)))
         ELSE ApplyResult(partial, tool_call, r.result)

\* the try/catch around the invocation: what the awaited call leaves in
\* partialResponse
AfterInvocation(partial, tool_call, raw) ==
    IF raw.kind = "throw"
    THEN PushMessage(partial, ToolMessage(tool_call, ErrorContent(raw.value)))
    ELSE LET r == handleFunctionResult(raw) IN
         IF r.threw
         THEN PushMessage(partial, ToolMessage(tool_call, ErrorContent(r.message)))
         ELSE ApplyResult(partial, tool_call, r.result)

(* ------------------------------ Delta merger --------------------------- *)
\* Field values are strings, or one of two values that are no strings: null
\* and a number, written as reserved one-atom sequences no string is equal to.
\* (List- and object-valued fields, other than tool_calls and a tool call's
\* function, are not drawn.)
JSNull == <<"<null>">>
JSNumber == <<"<number>">>

\* typeof value === 'string'
IsString(value) == value \notin {JSNull, JSNumber}

\* a faulty mergeFields: the fragment takes the place of what was there
MergeFieldsReplacing(target, source) ==
    [k \in (DOMAIN target) \cup {j \in DOMAIN source : IsString(source[j])} |->
        IF k \in DOMAIN source /\ IsString(source[k]) THEN source[k] ELSE target[k]]

\* mergeFields: a string value of source is added to the end of the target's
\* value, which is first made the empty string if it is no string (or is not
\* there); null and numbers in source are passed over
MergeFields(target, source) ==
    [k \in (DOMAIN target) \cup {j \in DOMAIN source : IsString(source[j])} |->
        IF k \in DOMAIN source /\ IsString(source[k])
        THEN (IF k \in DOMAIN target /\ IsString(target[k]) THEN target[k] ELSE <<>>)
             \o source[k]
        ELSE target[k]]

\* a faulty merge of a tool-call fragment: every fragment goes to slot 0
MergeToolCallOneSlot(calls, deltaToolCall) ==
    LET index == 0
        old == IF index \in DOMAIN calls
               THEN calls[index]
               ELSE [id |-> Undefined, type |-> Undefined, function |-> EmptyObject]
        new == [id |-> IF "id" \in DOMAIN deltaToolCall
                       THEN deltaToolCall.id ELSE old.id,
                type |-> IF "type" \in DOMAIN deltaToolCall
                         THEN deltaToolCall.type ELSE old.type,
                function |-> IF "function" \in DOMAIN deltaToolCall
                             THEN MergeFields(old.function, deltaToolCall.function)
                             ELSE old.function]
    IN [i \in (DOMAIN calls) \cup {index} |-> IF i = index THEN new ELSE calls[i]]

\* one tool-call fragment into the indexed tool_calls of the accumulator:
\* id and type verbatim, the function's fields through mergeFields
MergeToolCall(calls, deltaToolCall) ==
    LET index == deltaToolCall.index
        old == IF index \in DOMAIN calls
               THEN calls[index]
               ELSE [id |-> Undefined, type |-> Undefined, function |-> EmptyObject]
        new == [id |-> IF "id" \in DOMAIN deltaToolCall
                       THEN deltaToolCall.id ELSE old.id,
                type |-> IF "type" \in DOMAIN deltaToolCall
                         THEN deltaToolCall.type ELSE old.type,
                function |-> IF "function" \in DOMAIN deltaToolCall
                             THEN MergeFields(old.function, deltaToolCall.function)
                             ELSE old.function]
    IN [i \in (DOMAIN calls) \cup {index} |-> IF i = index THEN new ELSE calls[i]]

RECURSIVE MergeToolCalls(_, _)
MergeToolCalls(calls, fragments) ==
    IF fragments = <<>> THEN calls
    ELSE MergeToolCalls(MergeToolCall(calls, Head(fragments)), Tail(fragments))

\* mergeChunk(finalResponse, delta): role is dropped, tool_calls fragments are
\* merged by index, every other field through mergeFields.  (An accumulator
\* has a tool_calls field, empty before the first fragment: the {} that
\* runAndStream starts with and the [] mergeChunk puts in its place hold the
\* same, nothing.)
MergeChunk(finalResponse, delta) ==
    LET calls == IF "tool_calls" \in DOMAIN delta
                 THEN MergeToolCalls(finalResponse.tool_calls, delta.tool_calls)
                 ELSE finalResponse.tool_calls
        deltaWithoutToolCalls ==
            [k \in (DOMAIN delta) \ {"role", "tool_calls"} |-> delta[k]]
        fields == MergeFields([k \in (DOMAIN finalResponse) \ {"tool_calls"} |->
                                  finalResponse[k]],
                              deltaWithoutToolCalls)
    IN [k \in (DOMAIN fields) \cup {"tool_calls"} |->
           IF k = "tool_calls" THEN calls ELSE fields[k]]

\* Object.values(message.tool_calls): the entries by ascending index
RECURSIVE ObjectValues(_)
ObjectValues(calls) ==
    IF DOMAIN calls = {} THEN <<>>
    ELSE LET least == CHOOSE i \in DOMAIN calls : \A j \in DOMAIN calls : i <= j
         IN <<calls[least]>> \o ObjectValues([i \in (DOMAIN calls) \ {least} |-> calls[i]])

\* the chunks of a streamed completion for an assistant message with the given
\* tool calls: the role, then the text (when there are no tool calls), then per
\* tool call a fragment carrying id, type and name and one fragment per piece
\* of the argument payload
RECURSIVE ArgumentChunks(_, _)
ArgumentChunks(index, arguments) ==
    IF arguments = <<>> THEN <<>>
    ELSE <<[tool_calls |-> <<[index |-> index,
                              function |-> [arguments |-> <<Head(arguments)>>]]>>]>>
         \o ArgumentChunks(index, Tail(arguments))

RECURSIVE ToolCallChunks(_, _)
ToolCallChunks(calls, i) ==
    IF i > Len(calls) THEN <<>>
    ELSE <<[tool_calls |-> <<[index |-> i - 1, id |-> calls[i].id, type |-> calls[i].type,
                              function |-> [name |-> calls[i].function.name,
                                            arguments |-> <<>>]]>>]>>
         \o ArgumentChunks(i - 1, calls[i].function.arguments)
         \o ToolCallChunks(calls, i + 1)

Text == <<"Hel", "lo">>

Chunks(calls) ==
    <<[role |-> "assistant", content |-> <<>>]>>
    \o (IF calls = <<>> THEN <<[content |-> <<Text[1]>>], [content |-> <<Text[2]>>]>>
        ELSE ToolCallChunks(calls, 1))

(* --------------------------- getChatCompletion ------------------------- *)
\* instructions: the string, or the function applied to a copy of the context
Instructions(agent, context_variables) ==
    IF agent.dynamic_instructions
    THEN [text |-> agent.name, context |-> context_variables]
    ELSE [text |-> agent.name, context |-> EmptyObject]

\* the object const ctxVars is bound to during one getChatCompletion call
CtxVarsCopyRef == <<"context_variables", "getChatCompletion">>

\* what calling agent.instructions does to the object it is handed: B's
\* function notes in it that it was called; a string is not called
CallInstructions(agent, h, ref) ==
    IF agent.dynamic_instructions
    THEN Store(h, ref, ObjectAssign(h[ref], [seen |-> 1]))
    ELSE h

\* a faulty resolution: the function is handed context_variables itself
ResolveInstructionsShared(agent, h, context_variables) ==
    CallInstructions(agent, h, context_variables)

\* const ctxVars = { ...context_variables }; agent.instructions(ctxVars): the
\* heap after the call, the copy being dropped when getChatCompletion returns
ResolveInstructions(agent, h, context_variables) ==
    LET copied == Store(h, CtxVarsCopyRef, h[context_variables])
        called == CallInstructions(agent, copied, CtxVarsCopyRef)
    IN [r \in DOMAIN h |-> called[r]]

\* parameterToJsonSchema(param): the type, the items of an array, the
\* properties of an object; the required flag is not carried over
\* (description and enum are not drawn)
RECURSIVE parameterToJsonSchema(_)
parameterToJsonSchema(param) ==
    [k \in {"type"}
           \cup (IF param.type = "array" /\ "items" \in DOMAIN param
                 THEN {"items"} ELSE {})
           \cup (IF param.type = "object" /\ "properties" \in DOMAIN param
                 THEN {"properties"} ELSE {}) |->
        IF k = "type" THEN param.type
        ELSE IF k = "items" THEN parameterToJsonSchema(param.items)
        ELSE [j \in DOMAIN param.properties |->
                 parameterToJsonSchema(param.properties[j])]]

\* functionToJson(descriptor)
functionToJson(descriptor) ==
    LET IsRequired(key) == descriptor.parameters[key].required
    IN [type |-> "function",
        function |->
            [name |-> descriptor.name,
             parameters |->
                [type |-> "object",
                 properties |-> [k \in DOMAIN descriptor.parameters |->
                                    parameterToJsonSchema(descriptor.parameters[k])],
                 required |-> SelectSeq(KeysOf(descriptor.parameters), IsRequired)]]]

\* required.splice(requiredIndex, 1): the list without its element at index
Splice(list, index) ==
    SubSeq(list, 1, index - 1) \o SubSeq(list, index + 1, Len(list))

\* a faulty getChatCompletion: the schema goes out as functionToJson made it
HideContextNot(tool) == tool

\* delete tool.function.parameters.properties[CTX_VARS_NAME], and the name
\* taken out of required where indexOf finds it
HideContext(tool) ==
    LET required == tool.function.parameters.required
        found == {i \in 1..Len(required) : required[i] = CTX_VARS_NAME}
        requiredIndex == CHOOSE i \in found : \A j \in found : i <= j
    IN [tool EXCEPT
           !.function.parameters.properties =
               [k \in (DOMAIN @) \ {CTX_VARS_NAME} |-> @[k]],
           !.function.parameters.required =
               IF found # {} THEN Splice(@, requiredIndex) ELSE @]

\* const tools = agent.functions.map(func => functionToJson(func.descriptor)),
\* each with the reserved parameter hidden
Tools(agent) ==
    [i \in 1..Len(agent.functions) |->
        HideContext(functionToJson(Descriptor(agent.functions[i])))]

\* the object an Agent is: its fields and the descriptors of its functions
AgentObject(name) ==
    [agent |-> Agent(name),
     descriptors |-> [i \in 1..Len(Agent(name).functions) |->
                         Descriptor(Agent(name).functions[i])]]

\* the agents are objects of the caller, held by reference like the history
AgentRef(name) == <<"agent", name>>

\* the array const tools is bound to during one getChatCompletion call
ToolsRef == <<"tools", "getChatCompletion">>

\* a faulty getChatCompletion: the schemas share the descriptors' parameters
\* objects, so that the delete acts on the descriptors
BuildToolsShared(h, agent) ==
    Store(h, agent,
          [h[agent] EXCEPT !.descriptors =
              [i \in DOMAIN @ |->
                  [@[i] EXCEPT !.parameters =
                      [k \in (DOMAIN @) \ {CTX_VARS_NAME} |-> @[k]]]]])

\* const tools = agent.functions.map(...); tools.forEach(delete ...): the
\* schemas are new objects made by functionToJson, the deletes act on them,
\* and they are dropped when getChatCompletion returns
BuildTools(h, agent) ==
    LET descriptors == h[agent].descriptors
        built == Store(h, ToolsRef,
                       [i \in DOMAIN descriptors |-> functionToJson(descriptors[i])])
        hidden == Store(built, ToolsRef,
                        [i \in DOMAIN descriptors |-> HideContext(built[ToolsRef][i])])
    IN [r \in DOMAIN h |-> hidden[r]]

\* createParams of the request sent to the backend
CreateParams(agent, history, context_variables, model_override, stream) ==
    [model |-> IF model_override # "" THEN model_override ELSE agent.model,
     messages |-> <<[role |-> "system",
                     content |-> Instructions(agent, context_variables)]>> \o history,
     tools |-> Tools(agent),
     stream |-> stream]

(* ------------------------------- the run ------------------------------- *)
VARIABLES
    options,          \* SwarmRunOptions as the caller passed them
    active_agent,     \* let active_agent
    ctx_vars,         \* const ctx_vars = cloneDeep(context_variables)
    history,          \* const history = cloneDeep(messages)
    init_len,         \* const init_len = history.length
    pc,               \* where the run is suspended
    request,          \* createParams of the requests sent so far, in order
    completion,       \* the chunks of the stream not yet delivered
    message,          \* the assistant message being streamed
    tool_calls,       \* the tool calls handleToolCalls iterates over
    functions,        \* the functions handleToolCalls was given
    tc_index,         \* position of the for loop in tool_calls
    partialResponse,  \* handleToolCalls' partialResponse
    invoked,          \* the tool calls whose function was invoked, in order
    settled,          \* what each invoked function handed back, in order
    response,         \* what the caller got: nothing yet, a Response, an error
    last,             \* the step taken last
    heap,             \* the caller's objects and the runs' copies, by reference
    langfuse,         \* this.langfuse: whether it is set, and what it was told
    other,            \* a second run of the same Swarm on the same caller objects
    finalResponse,    \* mergeChunk's accumulator
    initialResponse,  \* the accumulator before the first delta
    deltas,           \* the deltas handed to mergeChunk, in arrival order
    merged,           \* how many of them were merged
    events,           \* what runAndStream has yielded to its consumer, in order
    validatedArgs,    \* what the tool function being awaited was called with
    given_descriptor, \* the descriptor validateArguments is called with
    given_args,       \* the args validateArguments is called with
    validation,       \* what validateArguments did: nothing yet, returned, threw
    environment,      \* what the backend and the tools did to the run, in order
    projected,        \* the run-item events of a streamed run, in order
    twin,             \* the finished run the present run is a repetition of
    repl              \* runDemoLoop: its messages, its agent, the runs of its lines

runVars == <<options, active_agent, ctx_vars, history, init_len, pc, request,
             completion, message, tool_calls, functions, tc_index, partialResponse,
             invoked, settled, response, last, langfuse, events, validatedArgs,
             environment, projected>>

mergeVars == <<finalResponse, initialResponse, deltas, merged>>

validateVars == <<given_descriptor, given_args, validation>>

vars == <<options, active_agent, ctx_vars, history, init_len, pc, request,
          completion, message, tool_calls, functions, tc_index, partialResponse,
          invoked, settled, response, last, heap, langfuse, other,
          finalResponse, initialResponse, deltas, merged, events, validatedArgs,
          given_descriptor, given_args, validation, environment, twin,
          projected, repl>>

UserMessage == [role |-> "user", content |-> <<"hi">>]

MaxTurnsValues == {Finite(k) : k \in 0..MaxTurns} \cup {Infinity}

OptionsSet ==
    [agent : {"A"},
     messages : {<<UserMessage>>},
     context_variables : {[a |-> 0, c |-> 0]},
     model_override : {"", "o1"},
     stream : BOOLEAN,
     max_turns : MaxTurnsValues,
     execute_tools : BOOLEAN]

NoMessage == [content |-> <<>>, sender |-> Undefined, role |-> "assistant",
              tool_calls |-> EmptyObject]

NoResponse == [kind |-> "none", messages |-> <<>>, agent |-> Undefined,
               context_variables |-> EmptyObject]

\* const history = cloneDeep(messages); const ctx_vars = cloneDeep(context_variables)
HistoryRef == cloneDeep(MessagesRef, "run")
CtxVarsRef == cloneDeep(ContextRef, "run")

\* the caller's two objects
CallerHeap(o) ==
    LET agents == [r \in {AgentRef(n) : n \in AgentNames} |-> AgentObject(r[2])]
    IN Store(Store(agents, MessagesRef, o.messages), ContextRef, o.context_variables)

\* what this.langfuse is told: the traces opened, the generation spans opened
\* and ended, the traces updated
Tell(log, event) ==
    IF log.enabled THEN [log EXCEPT !.events = Append(@, event)] ELSE log

TraceEvent == [op |-> "trace", level |-> "DEFAULT"]
GenerationEvent == [op |-> "generation", level |-> "DEFAULT"]
GenerationEnd(level) == [op |-> "generation.end", level |-> level]
TraceUpdate(output) == [op |-> "trace.update", level |-> output]

\* run opens a trace; runAndStream, which run hands a streamed run to, opens
\* its own
NewTraces(enabled, stream) ==
    [enabled |-> enabled,
     events |-> IF ~enabled THEN <<>>
                ELSE IF stream THEN <<TraceEvent, TraceEvent>> ELSE <<TraceEvent>>]

OtherIdle == [pc |-> "idle", appended |-> <<>>, updates |-> <<>>, response |-> NoResponse]

\* the locals of run / runAndStream before the loop, for the options o
RunInit(o, enabled) ==
    /\ options = o
    /\ langfuse = NewTraces(enabled, o.stream)
    /\ heap = Store(Store(CallerHeap(o), HistoryRef, o.messages),
                    CtxVarsRef, o.context_variables)
    /\ active_agent = o.agent
    /\ ctx_vars = o.context_variables
    /\ history = o.messages
    /\ init_len = Len(o.messages)
    /\ pc = "loop"
    /\ request = <<>>
    /\ completion = <<>>
    /\ message = NoMessage
    /\ tool_calls = <<>>
    /\ functions = <<>>
    /\ tc_index = 1
    /\ partialResponse = NewPartialResponse
    /\ invoked = <<>>
    /\ settled = <<>>
    /\ response = NoResponse
    /\ last = "init"
    /\ events = <<>>
    /\ validatedArgs = EmptyObject
    /\ environment = <<>>
    /\ projected = <<>>

\* no mergeChunk call is being looked at
MergeIdle ==
    /\ finalResponse = EmptyObject
    /\ initialResponse = EmptyObject
    /\ deltas = <<>>
    /\ merged = 0

\* no validateArguments call is being looked at
ValidateIdle ==
    /\ given_descriptor = EmptyObject
    /\ given_args = EmptyObject
    /\ validation = EmptyObject

\* runDemoLoop is not running
ReplIdle == repl = EmptyObject

\* the run is no repetition of an earlier one
NoTwin == [kind |-> "none"]

Init ==
    /\ \E o \in OptionsSet, enabled \in BOOLEAN : RunInit(o, enabled)
    /\ other = OtherIdle
    /\ MergeIdle
    /\ ValidateIdle
    /\ twin = NoTwin
    /\ ReplIdle

\* a faulty loop condition: one turn too many (<= for <)
LoopConditionOffByOne(hist, len, max_turns, agent, stream) ==
    /\ LessThan(Len(hist) - len - 1, max_turns)
    /\ (stream \/ agent # Undefined)

\* while ((history.length - init_len) < max_turns [&& active_agent])
LoopCondition(hist, len, max_turns, agent, stream) ==
    /\ LessThan(Len(hist) - len, max_turns)
    /\ (stream \/ agent # Undefined)

\* a faulty Response: the whole history, the caller's messages included
ResponseWholeHistory(hist, len, agent, context_variables) ==
    [kind |-> "response",
     messages |-> hist,
     agent |-> agent,
     context_variables |-> context_variables]

\* new Response({messages: history.slice(init_len), agent: active_agent,
\*               context_variables: ctx_vars})
Response(hist, len, agent, context_variables) ==
    [kind |-> "response",
     messages |-> SubSeq(hist, len + 1, Len(hist)),
     agent |-> agent,
     context_variables |-> context_variables]

ErrorOutcome(what) ==
    [kind |-> what, messages |-> <<>>, agent |-> Undefined,
     context_variables |-> EmptyObject]

\* a faulty break condition: execute_tools is not looked at
EndsTurnIgnoringFlag(msg, execute_tools) == msg.tool_calls.null

\* if (!message.tool_calls || !execute_tools) break
EndsTurn(msg, execute_tools) == msg.tool_calls.null \/ ~execute_tools

\* --- what the backend may answer ---
ToolTurnsSoFar ==
    Cardinality({i \in 1..Len(history) :
        history[i].role = "assistant" /\ ~history[i].tool_calls.null})

RECURSIVE SumCalls(_, _)
SumCalls(hist, i) ==
    IF i > Len(hist) THEN 0
    ELSE (IF hist[i].role = "assistant" THEN Len(hist[i].tool_calls.items) ELSE 0)
         + SumCalls(hist, i + 1)

Min(a, b) == IF a < b THEN a ELSE b

\* the tool-call lists of n calls the backend can ask for, ids numbered on
CallLists(n, first_id) ==
    {[i \in 1..n |-> [id |-> first_id + i, type |-> "function",
                      function |-> [name |-> c[i][1], arguments |-> c[i][2]]]] :
        c \in [1..n -> ToolNames \X ArgStrings]}

BackendCallLists ==
    IF ToolTurnsSoFar >= MaxToolTurns THEN {}
    ELSE UNION {CallLists(n, SumCalls(history, 1)) :
                  n \in 1..Min(MaxCalls, MaxTotalCalls - SumCalls(history, 1))}

\* a non-streamed completion's choices[0].message
BackendMessages ==
    {[role |-> "assistant", content |-> Text, tool_calls |-> Null]}
    \cup (IF ToolTurnsSoFar >= MaxToolTurns THEN {}
          ELSE {[role |-> "assistant", content |-> <<>>, tool_calls |-> Array(<<>>)]})
    \cup {[role |-> "assistant", content |-> <<>>, tool_calls |-> Array(c)] :
             c \in BackendCallLists}

\* what the backend or a tool may do next: anything, unless the run repeats
\* an earlier one; then what was done to that one at this point
Admits(entry) ==
    IF twin = NoTwin THEN TRUE
    ELSE IF Len(environment) < Len(twin.environment)
    THEN twin.environment[Len(environment) + 1] = entry
    ELSE FALSE

\* what the backend or a tool may answer with: any of choices, unless the run
\* repeats an earlier one; then the answer that one got at this point
Offered(what, field, choices) ==
    IF twin = NoTwin THEN choices
    ELSE IF Len(environment) < Len(twin.environment)
            /\ twin.environment[Len(environment) + 1].what = what
    THEN {twin.environment[Len(environment) + 1][field]}
    ELSE {}

\* --- the steps of run and runAndStream ---

\* the loop condition holds: getChatCompletion sends the request
Request ==
    /\ pc = "loop"
    /\ LoopCondition(history, init_len, options.max_turns, active_agent, options.stream)
    /\ request' = Append(request,
                         CreateParams(Agent(active_agent), history, ctx_vars,
                                      options.model_override, options.stream))
    /\ heap' = BuildTools(ResolveInstructions(Agent(active_agent), heap, CtxVarsRef),
                           AgentRef(active_agent))
    /\ ctx_vars' = heap'[CtxVarsRef]
    /\ langfuse' = Tell(langfuse, GenerationEvent)
    /\ pc' = "requesting"
    /\ last' = "Request"
    /\ UNCHANGED <<events, validatedArgs, environment, options, active_agent, history, init_len, completion,
                   message, tool_calls, functions, tc_index, partialResponse,
                   invoked, settled, response, other, mergeVars, validateVars, twin, repl, projected>>

\* a faulty yield: the consumer is handed the value twice
YieldTwice(evts, event) == Append(Append(evts, event), event)

\* yield event: the consumer of runAndStream is handed the value
Yield(evts, event) == Append(evts, event)

\* the delta as runAndStream yields it: with the active agent's name as sender
\* when it carries the role
RawEvent(delta, agent) ==
    [k \in (DOMAIN delta) \cup (IF "role" \in DOMAIN delta /\ delta.role = "assistant"
                                THEN {"sender"} ELSE {}) |->
        IF k = "sender" THEN agent.name ELSE delta[k]]

\* the loop condition fails: the Response is built and returned (yielded by
\* runAndStream)
Finish ==
    /\ pc = "loop"
    /\ ~LoopCondition(history, init_len, options.max_turns, active_agent, options.stream)
    /\ response' = Response(history, init_len, active_agent, ctx_vars)
    /\ langfuse' = Tell(langfuse, TraceUpdate("response"))
    /\ events' = IF options.stream THEN Yield(events, [response |-> response']) ELSE events
    /\ pc' = "done"
    /\ last' = "Finish"
    /\ UNCHANGED <<validatedArgs, environment, options, active_agent, ctx_vars, history, init_len, request,
                   completion, message, tool_calls, functions, tc_index,
                   partialResponse, invoked, settled, heap, other, mergeVars, validateVars, twin, repl, projected>>

\* a faulty catch in getChatCompletion: the span is ended as if all went well
GenerationEndOnErrorDefault(log) == Tell(log, GenerationEnd("DEFAULT"))

\* getChatCompletion's catch: generation.end({level: "ERROR", ...})
GenerationEndOnError(log) == Tell(log, GenerationEnd("ERROR"))

\* client.chat.completions.create rejects: getChatCompletion ends the span
\* and rethrows, run / runAndStream update the trace and rethrow
BackendError ==
    /\ pc = "requesting"
    /\ Admits([what |-> "create rejects"])
    /\ response' = ErrorOutcome("backend error")
    /\ langfuse' = Tell(GenerationEndOnError(langfuse), TraceUpdate("error"))
    /\ environment' = Append(environment, [what |-> "create rejects"])
    /\ pc' = "error"
    /\ last' = "BackendError"
    /\ UNCHANGED <<events, validatedArgs, options, active_agent, ctx_vars, history, init_len, request,
                   completion, message, tool_calls, functions, tc_index,
                   partialResponse, invoked, settled, heap, other, mergeVars, validateVars, twin, repl, projected>>

\* runAndStream: the iterator of the stream throws between two chunks; the
\* span was ended when the stream was returned
StreamError ==
    /\ pc = "streaming"
    /\ Admits([what |-> "stream throws"])
    /\ response' = ErrorOutcome("stream error")
    /\ langfuse' = Tell(langfuse, TraceUpdate("error"))
    /\ environment' = Append(environment, [what |-> "stream throws"])
    /\ pc' = "error"
    /\ last' = "StreamError"
    /\ UNCHANGED <<events, validatedArgs, options, active_agent, ctx_vars, history, init_len, request,
                   completion, message, tool_calls, functions, tc_index,
                   partialResponse, invoked, settled, heap, other, mergeVars, validateVars, twin, repl, projected>>

\* a faulty push: the message takes the place of the last one
PushReplacingLast(hist, msg) == [hist EXCEPT ![Len(hist)] = msg]

\* history.push(message)
Push(hist, msg) == Append(hist, msg)

\* a faulty turn: with a sink the turn ends whatever the message asks for
AfterMessageSinkBreaks(msg, calls, log, evts) ==
    /\ history' = Push(history, msg)
    /\ heap' = Store(heap, HistoryRef, history')
    /\ IF EndsTurn(msg, options.execute_tools) \/ log.enabled
       THEN /\ response' = Response(history', init_len, active_agent, ctx_vars)
            /\ langfuse' = Tell(log, TraceUpdate("response"))
            /\ events' = IF options.stream
                         THEN Yield(evts, [response |-> response']) ELSE evts
            /\ pc' = "done"
            /\ UNCHANGED <<tool_calls, functions, tc_index, partialResponse>>
       ELSE /\ tool_calls' = calls
            /\ functions' = Agent(active_agent).functions
            /\ tc_index' = 1
            /\ partialResponse' = NewPartialResponse
            /\ langfuse' = log
            /\ events' = evts
            /\ pc' = "dispatch"
            /\ UNCHANGED response

\* history.push(message) and what follows it up to the next suspension:
\* the break (and the Response), or the entry into handleToolCalls
AfterMessage(msg, calls, log, evts) ==
    /\ history' = Push(history, msg)
    /\ heap' = Store(heap, HistoryRef, history')
    /\ IF EndsTurn(msg, options.execute_tools)
       THEN /\ response' = Response(history', init_len, active_agent, ctx_vars)
            /\ langfuse' = Tell(log, TraceUpdate("response"))
            /\ events' = IF options.stream
                         THEN Yield(evts, [response |-> response']) ELSE evts
            /\ pc' = "done"
            /\ UNCHANGED <<tool_calls, functions, tc_index, partialResponse>>
       ELSE /\ tool_calls' = calls
            /\ functions' = Agent(active_agent).functions
            /\ tc_index' = 1
            /\ partialResponse' = NewPartialResponse
            /\ langfuse' = log
            /\ events' = evts
            /\ pc' = "dispatch"
            /\ UNCHANGED response

\* run: the completion arrives; message = {...messageData, sender: active_agent.name}
Completion ==
    /\ pc = "requesting"
    /\ ~options.stream
    /\ \E messageData \in Offered("message", "message", BackendMessages) :
          /\ AfterMessage([role |-> messageData.role,
                           content |-> messageData.content,
                           tool_calls |-> messageData.tool_calls,
                           sender |-> Agent(active_agent).name],
                          messageData.tool_calls.items,
                          Tell(langfuse, GenerationEnd("DEFAULT")),
                          events)
          /\ environment' = Append(environment,
                                   [what |-> "message", message |-> messageData])
    /\ last' = "Completion"
    /\ UNCHANGED <<validatedArgs, options, active_agent, ctx_vars, init_len, request, completion,
                   message, invoked, settled, other, mergeVars, validateVars, twin, repl, projected>>

\* runAndStream: the stream is returned; the accumulator is set up
\* (sender: agent.name, tool_calls: {}) and {delim: 'start'} is yielded
StreamStart ==
    /\ pc = "requesting"
    /\ options.stream
    /\ \E calls \in Offered("stream", "calls", {<<>>} \cup BackendCallLists) :
          /\ completion' = Chunks(calls)
          /\ environment' = Append(environment, [what |-> "stream", calls |-> calls])
    /\ message' = [content |-> <<>>, sender |-> Agent(options.agent).name,
                   role |-> "assistant", tool_calls |-> EmptyObject]
    /\ langfuse' = Tell(langfuse, GenerationEnd("DEFAULT"))
    /\ events' = Yield(events, [delim |-> "start"])
    /\ pc' = "streaming"
    /\ last' = "StreamStart"
    /\ UNCHANGED <<validatedArgs, options, active_agent, ctx_vars, history, init_len, request,
                   tool_calls, functions, tc_index, partialResponse, invoked, settled,
                   response, heap, other, mergeVars, validateVars, twin, repl, projected>>

\* a faulty loop body: the delta is merged and not yielded
StreamChunkSilent ==
    /\ pc = "streaming"
    /\ completion # <<>>
    /\ Admits([what |-> "chunk"])
    /\ message' = MergeChunk(message, Head(completion))
    /\ completion' = Tail(completion)
    /\ environment' = Append(environment, [what |-> "chunk"])
    /\ last' = "StreamChunk"
    /\ UNCHANGED <<events, validatedArgs, options, active_agent, ctx_vars, history, init_len, pc, request,
                   tool_calls, functions, tc_index, partialResponse, invoked, settled,
                   response, heap, langfuse, other, mergeVars, validateVars, twin, repl, projected>>

\* runAndStream: one chunk: the delta is yielded, then merged without its role
StreamChunk ==
    /\ pc = "streaming"
    /\ completion # <<>>
    /\ Admits([what |-> "chunk"])
    /\ events' = Yield(events, RawEvent(Head(completion), Agent(active_agent)))
    /\ message' = MergeChunk(message, Head(completion))
    /\ completion' = Tail(completion)
    /\ environment' = Append(environment, [what |-> "chunk"])
    /\ last' = "StreamChunk"
    /\ UNCHANGED <<validatedArgs, options, active_agent, ctx_vars, history, init_len, pc, request,
                   tool_calls, functions, tc_index, partialResponse, invoked, settled,
                   response, heap, langfuse, other, mergeVars, validateVars, twin, repl, projected>>

\* message.tool_calls = Object.values(message.tool_calls), null when empty
NormalizeToolCalls(calls) ==
    IF ObjectValues(calls) = <<>> THEN Null ELSE Array(ObjectValues(calls))

\* message.tool_calls.map(tc => ({id, function: new ToolFunction(...), type}))
ToolCallObjects(items) ==
    [i \in 1..Len(items) |->
        [id |-> items[i].id,
         function |-> [arguments |-> items[i].function.arguments,
                       name |-> items[i].function.name],
         type |-> items[i].type]]

\* --- the run-item events of a streamed run ---
\* RunItemStreamEvent (stream_events.ts): the events named tool_called and
\* tool_output, each with the item it is about
ToolCalled(tool_call, agent) ==
    [type |-> "run_item_stream_event", name |-> "tool_called",
     item |-> [type |-> "tool_call_item", agent |-> agent, raw_item |-> tool_call]]

ToolOutput(msg, agent) ==
    [type |-> "run_item_stream_event", name |-> "tool_output",
     item |-> [type |-> "tool_call_output_item", agent |-> agent, raw_item |-> msg,
               output |-> msg.content]]

\* a faulty announcement: only the first requested call is announced
AnnounceFirst(items, calls, agent) ==
    IF calls = <<>> THEN items ELSE Append(items, ToolCalled(calls[1], agent))

\* one tool_called event per requested tool call, before dispatch begins
Announce(items, calls, agent) ==
    items \o [i \in 1..Len(calls) |-> ToolCalled(calls[i], agent)]

\* one tool_output event per completed tool dispatch, success or error: for
\* every tool message the dispatch of a call has left
Report(items, before, after, agent) ==
    items \o [i \in 1..(Len(after.messages) - Len(before.messages)) |->
                ToolOutput(after.messages[Len(before.messages) + i], agent)]

\* runAndStream: the stream ends: {delim: 'end'}, the message is finished
StreamEnd ==
    /\ pc = "streaming"
    /\ completion = <<>>
    /\ Admits([what |-> "end of stream"])
    /\ AfterMessage([message EXCEPT !.tool_calls = NormalizeToolCalls(@)],
                    ToolCallObjects(NormalizeToolCalls(message.tool_calls).items),
                    langfuse,
                    Yield(events, [delim |-> "end"]))
    /\ projected' = IF pc' = "dispatch"
                    THEN Announce(projected, tool_calls', Agent(active_agent).name)
                    ELSE projected
    /\ message' = NoMessage
    /\ environment' = Append(environment, [what |-> "end of stream"])
    /\ last' = "StreamEnd"
    /\ UNCHANGED <<validatedArgs, options, active_agent, ctx_vars, init_len, request, completion,
                   invoked, settled, other, mergeVars, validateVars, twin, repl>>

\* content.includes(part)
Contains(content, part) ==
    \E i \in 1..(Len(content) - Len(part) + 1) :
        SubSeq(content, i, i + Len(part) - 1) = part

\* func.func.length: every tool function takes the argument mapping
FuncLength(fname) == 1

\* func.toString(), func being the AgentFunction {name, func, descriptor}: a
\* plain object, for which Object.prototype.toString answers
toString(fname) == <<"[object Object]">>

\* the Shared Context as a JSON value
JSONOf(context_variables) ==
    Obj([k \in DOMAIN context_variables |-> Num(context_variables[k])])

\* if (func.func.length > 0 && func.toString().includes(CTX_VARS_NAME))
\*     args[CTX_VARS_NAME] = context_variables
Inject(parsedArgs, fname, context_variables) ==
    IF FuncLength(fname) > 0 /\ Contains(toString(fname), <<CTX_VARS_NAME>>)
    THEN [k \in (DOMAIN parsedArgs) \cup {CTX_VARS_NAME} |->
             IF k = CTX_VARS_NAME THEN JSONOf(context_variables) ELSE parsedArgs[k]]
    ELSE parsedArgs

\* --- the steps of handleToolCalls ---

\* one iteration of the for loop up to its continue, its throw, or the await
\* of the tool function (JSON.parse is outside every try: its SyntaxError
\* leaves handleToolCalls and the run)
ToolCall ==
    /\ pc = "dispatch"
    /\ tc_index <= Len(tool_calls)
    /\ LET tool_call == tool_calls[tc_index]
           name == tool_call.function.name
           parsed == JSONParse(tool_call.function.arguments)
           validated == ValidateArguments(Inject(parsed.value, name, ctx_vars),
                                          Descriptor(name))
       IN IF ~InFunctionMap(name, functions)
          THEN /\ partialResponse' =
                      PushMessage(partialResponse,
                                  ToolMessage(tool_call, NotFoundContent(name)))
               /\ tc_index' = tc_index + 1
               /\ UNCHANGED <<pc, invoked, response, langfuse, validatedArgs>>
          ELSE IF parsed.threw
          THEN /\ response' = ErrorOutcome("SyntaxError")
               /\ langfuse' = Tell(langfuse, TraceUpdate("error"))
               /\ pc' = "error"
               /\ UNCHANGED <<partialResponse, tc_index, invoked, validatedArgs>>
          ELSE IF validated.threw
          THEN /\ partialResponse' =
                      PushMessage(partialResponse,
                                  ToolMessage(tool_call, ErrorContent(validated.message)))
               /\ tc_index' = tc_index + 1
               /\ UNCHANGED <<pc, invoked, response, langfuse, validatedArgs>>
          ELSE /\ invoked' = Append(invoked, tool_call.id)
               /\ validatedArgs' = validated.value
               /\ pc' = "invoking"
               /\ UNCHANGED <<partialResponse, tc_index, response, langfuse>>
    /\ projected' = IF options.stream
                    THEN Report(projected, partialResponse, partialResponse',
                                Agent(active_agent).name)
                    ELSE projected
    /\ last' = "ToolCall"
    /\ UNCHANGED <<events, environment, options, active_agent, ctx_vars, history, init_len, request,
                   completion, message, tool_calls, functions, settled, heap, other,
                   mergeVars, validateVars, twin, repl>>

\* the awaited tool function settles; the rest of the iteration
ToolReturn ==
    /\ pc = "invoking"
    /\ \E raw_result \in Offered("tool", "raw", RawResults) :
          /\ partialResponse' =
                 AfterInvocation(partialResponse, tool_calls[tc_index], raw_result)
          /\ settled' = Append(settled, [turn |-> Len(request),
                                         call |-> tool_calls[tc_index].id,
                                         raw |-> raw_result])
          /\ environment' = Append(environment, [what |-> "tool", raw |-> raw_result])
    /\ tc_index' = tc_index + 1
    /\ validatedArgs' = EmptyObject
    /\ pc' = "dispatch"
    /\ projected' = IF options.stream
                    THEN Report(projected, partialResponse, partialResponse',
                                Agent(active_agent).name)
                    ELSE projected
    /\ last' = "ToolReturn"
    /\ UNCHANGED <<events, options, active_agent, ctx_vars, history, init_len, request,
                   completion, message, tool_calls, functions, invoked, response,
                   heap, langfuse, other, mergeVars, validateVars, twin, repl>>

\* faulty variants: the agent is assigned without the test / never assigned
NextAgentUnconditional(agent, partial) == partial.agent

NextAgentKept(agent, partial) == agent

\* if (partial_response.agent) active_agent = partial_response.agent
NextAgent(agent, partial) ==
    IF partial.agent # Undefined THEN partial.agent ELSE agent

\* a faulty loop: handleToolCalls returns while the last tool is in flight
DispatchEndNotAwaited ==
    /\ pc = "invoking"
    /\ tc_index = Len(tool_calls)
    /\ history' = history \o partialResponse.messages
    /\ ctx_vars' = ObjectAssign(ctx_vars, partialResponse.context_variables)
    /\ heap' = Store(Store(heap, HistoryRef, history'), CtxVarsRef, ctx_vars')
    /\ active_agent' = NextAgent(active_agent, partialResponse)
    /\ pc' = "loop"
    /\ last' = "DispatchEnd"
    /\ UNCHANGED <<events, validatedArgs, environment, options, init_len, request, completion, message, tool_calls,
                   functions, tc_index, partialResponse, invoked, settled, response,
                   langfuse, other, mergeVars, validateVars, twin, repl, projected>>

\* handleToolCalls returns; run / runAndStream take its partial response in
DispatchEnd ==
    /\ pc = "dispatch"
    /\ tc_index > Len(tool_calls)
    /\ history' = history \o partialResponse.messages
    /\ ctx_vars' = ObjectAssign(ctx_vars, partialResponse.context_variables)
    /\ heap' = Store(Store(heap, HistoryRef, history'), CtxVarsRef, ctx_vars')
    /\ active_agent' = NextAgent(active_agent, partialResponse)
    /\ pc' = "loop"
    /\ last' = "DispatchEnd"
    /\ UNCHANGED <<events, validatedArgs, environment, options, init_len, request, completion, message, tool_calls,
                   functions, tc_index, partialResponse, invoked, settled, response,
                   langfuse, other, mergeVars, validateVars, twin, repl, projected>>

Next ==
    \/ Request
    \/ Finish
    \/ BackendError
    \/ StreamError
    \/ Completion
    \/ StreamStart
    \/ StreamChunk
    \/ StreamEnd
    \/ ToolCall
    \/ ToolReturn
    \/ DispatchEnd

Spec == Init /\ [][Next]_vars

\* every suspended step is eventually resumed: the backend answers, the tool
\* settles, the event loop runs the continuation
FairSpec == Spec /\ WF_vars(Next)

(* ------------------------ a second run alongside ----------------------- *)
\* Another call of run on the same Swarm with the same messages list and the
\* same context_variables object, taking its steps while the first run is
\* suspended.  Of the second run only what it does to objects is kept: its
\* copies, its pushes, its merges, its Response.
OtherHistoryRef == cloneDeep(MessagesRef, "other")
OtherCtxVarsRef == cloneDeep(ContextRef, "other")

OtherMessages ==
    {[role |-> "assistant", content |-> <<"other">>, tool_calls |-> Null, sender |-> "A"]}

OtherUpdates == {[a |-> 7]}

TwoRunOptions ==
    {o \in OptionsSet : /\ o.model_override = ""
                        /\ o.execute_tools
                        /\ o.max_turns = Finite(3)}

TwoRunInit ==
    /\ \E o \in TwoRunOptions : RunInit(o, FALSE)
    /\ other = OtherIdle
    /\ MergeIdle
    /\ ValidateIdle
    /\ twin = NoTwin
    /\ ReplIdle

\* what the first run finds behind its references when it resumes
Resume ==
    /\ history' = heap'[HistoryRef]
    /\ ctx_vars' = heap'[CtxVarsRef]
    /\ UNCHANGED <<events, validatedArgs, environment, options, active_agent, init_len, pc, request, completion,
                   message, tool_calls, functions, tc_index, partialResponse,
                   invoked, settled, response, last, langfuse, mergeVars, validateVars, twin, repl, projected>>

\* the second run is called: its two cloneDeep copies
OtherStart ==
    /\ other.pc = "idle"
    /\ heap' = Store(Store(heap, OtherHistoryRef, heap[MessagesRef]),
                     OtherCtxVarsRef, heap[ContextRef])
    /\ other' = [other EXCEPT !.pc = "running"]
    /\ Resume

\* the second run pushes a message to its history
OtherPush ==
    /\ other.pc = "running"
    /\ Len(other.appended) < MaxOtherSteps
    /\ \E msg \in OtherMessages :
          /\ heap' = Store(heap, OtherHistoryRef, Push(heap[OtherHistoryRef], msg))
          /\ other' = [other EXCEPT !.appended = Append(@, msg)]
    /\ Resume

\* the second run merges the context updates of a dispatch into its context
OtherAssign ==
    /\ other.pc = "running"
    /\ Len(other.updates) < MaxOtherSteps
    /\ \E update \in OtherUpdates :
          /\ heap' = Store(heap, OtherCtxVarsRef,
                           ObjectAssign(heap[OtherCtxVarsRef], update))
          /\ other' = [other EXCEPT !.updates = Append(@, update)]
    /\ Resume

\* the second run returns its Response
OtherFinish ==
    /\ other.pc = "running"
    /\ other' = [other EXCEPT
                    !.pc = "done",
                    !.response = Response(heap[OtherHistoryRef], Len(heap[MessagesRef]),
                                          options.agent, heap[OtherCtxVarsRef])]
    /\ heap' = heap
    /\ Resume

TwoRunNext ==
    \/ Next
    \/ OtherStart
    \/ OtherPush
    \/ OtherAssign
    \/ OtherFinish

TwoRunSpec == TwoRunInit /\ [][TwoRunNext]_vars

(* ------------------ the same run again, without the sink -------------- *)
\* A Swarm with an observability sink runs to its end; then a Swarm without
\* one is given the same options, and the backend and the tools do to it what
\* they did to the first run, for as long as it asks them the same way.
SinkOptions == TwoRunOptions

SinkInit ==
    /\ \E o \in SinkOptions : RunInit(o, TRUE)
    /\ other = OtherIdle
    /\ MergeIdle
    /\ ValidateIdle
    /\ twin = NoTwin
    /\ ReplIdle

IsPrefix(s, t) == Len(s) <= Len(t) /\ SubSeq(t, 1, Len(s)) = s

\* the first run came to its end with a Response or an error: what it did is
\* kept, and run is called again on a Swarm that has no sink
Again ==
    /\ twin = NoTwin
    /\ pc \in {"done", "error"}
    /\ twin' = [kind |-> "first", environment |-> environment, request |-> request,
                invoked |-> invoked, history |-> history, response |-> response,
                events |-> events]
    /\ langfuse' = NewTraces(FALSE, options.stream)
    /\ heap' = Store(Store(CallerHeap(options), HistoryRef, options.messages),
                     CtxVarsRef, options.context_variables)
    /\ active_agent' = options.agent
    /\ ctx_vars' = options.context_variables
    /\ history' = options.messages
    /\ init_len' = Len(options.messages)
    /\ pc' = "loop"
    /\ request' = <<>>
    /\ completion' = <<>>
    /\ message' = NoMessage
    /\ tool_calls' = <<>>
    /\ functions' = <<>>
    /\ tc_index' = 1
    /\ partialResponse' = NewPartialResponse
    /\ invoked' = <<>>
    /\ settled' = <<>>
    /\ response' = NoResponse
    /\ last' = "init"
    /\ events' = <<>>
    /\ validatedArgs' = EmptyObject
    /\ environment' = <<>>
    /\ projected' = <<>>
    /\ UNCHANGED <<options, other, mergeVars, validateVars, repl>>

\* a step of the first run
First == twin = NoTwin /\ Next

\* a step of the second run; the backend and the tools do to it what they
\* did to the first
Repeat == twin # NoTwin /\ Next

SinkNext ==
    \/ First
    \/ Again
    \/ Repeat

SinkSpec == SinkInit /\ [][SinkNext]_vars

(* ------------------------- mergeChunk on its own ----------------------- *)
\* mergeChunk applied to an accumulator and a sequence of deltas, one delta
\* per step.
Accumulators ==
    {[content |-> c, role |-> <<"assistant">>, tool_calls |-> EmptyObject] :
        c \in {<<>>, <<"x">>, JSNull}}
    \cup {[role |-> <<"assistant">>, tool_calls |-> EmptyObject]}

\* the fragments a delta's tool_calls may carry: the opening fragment of call
\* 0 and of call 1 (id, type, name), pieces of their argument strings, and a
\* fragment of call 0 that carries an id of its own
OpeningFragment(index) ==
    [index |-> index, id |-> IF index = 0 THEN "a" ELSE "b", type |-> "function",
     function |-> [name |-> IF index = 0 THEN <<"ca">> ELSE <<"cb">>,
                   arguments |-> <<>>]]

ArgumentFragment(index) ==
    [index |-> index,
     function |-> [arguments |-> IF index = 0 THEN <<"{x:">> ELSE <<"1}">>]]

\* a fragment of call 0 that comes with an id and a type again
RepeatingFragment == [index |-> 0, id |-> "c", type |-> "function"]

Deltas ==
    {[content |-> <<"Hel">>], [content |-> <<"lo">>], [content |-> JSNull],
     [role |-> <<"assistant">>, content |-> <<>>]}
    \cup {[tool_calls |-> <<OpeningFragment(i)>>] : i \in {0, 1}}
    \cup {[tool_calls |-> <<RepeatingFragment>>]}
    \cup {[tool_calls |-> <<ArgumentFragment(i)>>] : i \in {0, 1}}
    \cup {[content |-> JSNull,
           tool_calls |-> <<ArgumentFragment(1), ArgumentFragment(0)>>]}

DeltaSequences == UNION {[1..n -> Deltas] : n \in 0..MaxDeltas}

MergeInit ==
    /\ \E o \in TwoRunOptions : (~o.stream /\ RunInit(o, FALSE))
    /\ other = OtherIdle
    /\ initialResponse \in Accumulators
    /\ finalResponse = initialResponse
    /\ deltas \in DeltaSequences
    /\ merged = 0
    /\ ValidateIdle
    /\ twin = NoTwin
    /\ ReplIdle

\* mergeChunk(finalResponse, delta) for the next delta
MergeStep ==
    /\ merged < Len(deltas)
    /\ finalResponse' = MergeChunk(finalResponse, deltas[merged + 1])
    /\ merged' = merged + 1
    /\ UNCHANGED <<runVars, heap, other, initialResponse, deltas, validateVars, twin, repl>>

MergeSpec == MergeInit /\ [][MergeStep]_vars

(* ---------------------- validateArguments on its own ------------------- *)
\* validateArguments applied to a descriptor and an argument mapping.
\* an object with a required number x and an optional string y
Point == ObjectParam([x |-> Required(NumberParam), y |-> StringParam])

\* the parameters of the descriptors validateArguments is called with:
\* required parameters at the top level, inside a nested object, two levels
\* down, inside the elements of an array, and one whose name every object
\* inherits a property of; and parameters with an enum at the top level,
\* inside the elements of an array and inside a nested object, and a boolean
ParameterSets ==
    {[x |-> Required(NumberParam)],
     [x |-> Required(NumberParam), y |-> Required(StringParam)],
     [p |-> Required(Point)],
     [p |-> Point, x |-> Required(NumberParam)],
     [p |-> ObjectParam([o |-> Required(Point)])],
     [q |-> Required(ArrayParam(Point))],
     [q |-> ArrayParam(Point), p |-> Point],
     [constructor |-> Required(StringParam), x |-> NumberParam],
     [x |-> Required(Enum(NumberParam, {1}))],
     [q |-> ArrayParam(Enum(StringParam, {1})), y |-> BooleanParam],
     [p |-> ObjectParam([x |-> Enum(NumberParam, {1})])]}

Descriptors == {[name |-> <<"f">>, parameters |-> ps] : ps \in ParameterSets}

\* the objects an argument mapping may hold: with and without x and y
Points ==
    {Obj(EmptyObject), Obj([x |-> Num(1)]), Obj([y |-> Str(1)]),
     Obj([x |-> Num(1), y |-> Str(1)])}

Nested == {Obj(EmptyObject)} \cup {Obj([o |-> pt]) : pt \in {Obj(EmptyObject), Obj([x |-> Num(1)])}}

Arrays == UNION {[1..n -> {Obj(EmptyObject), Obj([x |-> Num(1)])}] : n \in 0..MaxItems}

\* every value of a mapping has the type its name is declared with; each name
\* may be absent
Candidates ==
    [x |-> {Num(1)}, y |-> {Str(1)}, p |-> Points \cup Nested,
     q |-> {Arr(a) : a \in Arrays}]

ArgumentMappings ==
    UNION {[keys -> UNION {Candidates[k] : k \in keys}] : keys \in SUBSET {"x", "y", "p", "q"}}

WellTyped(mapping) == \A k \in DOMAIN mapping : mapping[k] \in Candidates[k]

\* mappings whose values may have another type than the one declared, or lie
\* outside an enum, at the top level and one level down, and mappings with a
\* key no schema knows whose name every object inherits a property of
OtherCandidates ==
    [x |-> {Num(1), Num(2), Str(1)},
     y |-> {Str(1), Bool(TRUE), Num(1)},
     p |-> {Obj([x |-> Num(2)]), Obj([x |-> Str(1)]), Arr(<<>>), Num(1)},
     q |-> {Arr(<<Str(1)>>), Arr(<<Str(1), Str(2)>>), Arr(<<Num(1)>>), Obj(EmptyObject)},
     constructor |-> {Str(1)}]

OtherMappings ==
    UNION {[keys -> UNION {OtherCandidates[k] : k \in keys}] :
              keys \in SUBSET {"x", "y", "p", "q", "constructor"}}

OfCandidates(mapping) == \A k \in DOMAIN mapping : mapping[k] \in OtherCandidates[k]

ValidateInit ==
    /\ \E o \in TwoRunOptions : (~o.stream /\ RunInit(o, FALSE))
    /\ other = OtherIdle
    /\ MergeIdle
    /\ twin = NoTwin
    /\ ReplIdle
    /\ given_descriptor \in Descriptors
    /\ given_args \in {m \in ArgumentMappings : WellTyped(m)}
                      \cup {m \in OtherMappings : OfCandidates(m)}
    /\ validation = EmptyObject

\* validateArguments(args, descriptor) returns or throws
Validate ==
    /\ validation = EmptyObject
    /\ validation' = ValidateArguments(given_args, given_descriptor)
    /\ UNCHANGED <<runVars, heap, other, mergeVars, given_descriptor, given_args, twin, repl>>

ValidateSpec == ValidateInit /\ [][Validate]_vars

(* ------------------------------ runDemoLoop ---------------------------- *)
\* runDemoLoop reads lines; the handler of a line pushes the user message,
\* calls client.run and, when the run has returned, pushes the messages of
\* its Response and takes its agent.  A handler that awaits leaves the event
\* loop to the handlers of the lines that arrive meanwhile.
MaxLines == 2

\* { role: 'user', content: userInput } for the k-th line read
UserInput(k) == [role |-> "user", content |-> <<IndexNames[k]>>]

\* what a run started for the k-th line with agent a may append to its
\* history: one assistant message, or two
Appended(k, a) ==
    LET said == [role |-> "assistant", content |-> <<"re", IndexNames[k]>>,
                 tool_calls |-> Null, sender |-> a]
    IN {<<said>>, <<said, said>>}

\* const messages = []; let agent = startingAgent; no line was read
ReplStart(startingAgent, stream) ==
    [messages |-> <<>>, agent |-> startingAgent, stream |-> stream,
     runs |-> <<>>, closed |-> FALSE]

ReplInit ==
    /\ \E o \in TwoRunOptions : (~o.stream /\ RunInit(o, FALSE))
    /\ other = OtherIdle
    /\ MergeIdle
    /\ ValidateIdle
    /\ twin = NoTwin
    /\ \E startingAgent \in AgentNames, stream \in BOOLEAN :
          repl = ReplStart(startingAgent, stream)

\* rl.on('line'): messages.push({role: 'user', ...}); client.run({agent,
\* messages, ...}) up to its first await.  run copies messages before it
\* awaits; runAndStream copies them when its iteration begins
Line ==
    /\ ~repl.closed
    /\ Len(repl.runs) < MaxLines
    /\ LET k == Len(repl.runs) + 1
           pushed == Push(repl.messages, UserInput(k))
       IN repl' = [repl EXCEPT
                      !.messages = pushed,
                      !.runs = Append(@, [pc |-> IF repl.stream THEN "called"
                                                 ELSE "awaiting",
                                          agent |-> repl.agent,
                                          history |-> IF repl.stream THEN <<>>
                                                      ELSE pushed,
                                          response |-> NoResponse])]
    /\ UNCHANGED <<runVars, heap, other, mergeVars, validateVars, twin>>

\* processAndPrintStreamingResponse begins to iterate: runAndStream copies
\* messages as they are now
Iterate(k) ==
    /\ ~repl.closed
    /\ repl.runs[k].pc = "called"
    /\ repl' = [repl EXCEPT !.runs[k].pc = "awaiting",
                            !.runs[k].history = repl.messages]
    /\ UNCHANGED <<runVars, heap, other, mergeVars, validateVars, twin>>

\* messages.push(...response.messages); agent = response.agent
AfterRun(state, k, resp) ==
    [state EXCEPT
        !.messages = @ \o resp.messages,
        !.agent = resp.agent,
        !.runs[k].pc = "returned",
        !.runs[k].response = resp]

\* the run of the k-th line returns its Response (in streamed mode: the
\* response item is yielded), and the handler goes on
Returns(k) ==
    /\ ~repl.closed
    /\ repl.runs[k].pc = "awaiting"
    /\ \E b \in AgentNames, appended \in Appended(k, repl.runs[k].agent) :
          repl' = AfterRun(repl, k,
                           Response(repl.runs[k].history \o appended,
                                    Len(repl.runs[k].history), b, EmptyObject))
    /\ UNCHANGED <<runVars, heap, other, mergeVars, validateVars, twin>>

\* the run of the k-th line throws: catch (error) { console.error(...) }
Throws(k) ==
    /\ ~repl.closed
    /\ repl.runs[k].pc = "awaiting"
    /\ repl' = [repl EXCEPT !.runs[k].pc = "failed"]
    /\ UNCHANGED <<runVars, heap, other, mergeVars, validateVars, twin>>

\* rl.on('close'): process.exit(0)
Close ==
    /\ ~repl.closed
    /\ repl' = [repl EXCEPT !.closed = TRUE]
    /\ UNCHANGED <<runVars, heap, other, mergeVars, validateVars, twin>>

ReplNext ==
    \/ Line
    \/ \E k \in 1..Len(repl.runs) : Iterate(k)
    \/ \E k \in 1..Len(repl.runs) : Returns(k)
    \/ \E k \in 1..Len(repl.runs) : Throws(k)
    \/ Close

ReplSpec == ReplInit /\ [][ReplNext]_vars

(* ======================================================================= *)
(* Properties of the turn engine                                           *)
(* ======================================================================= *)
\* the indices of the messages appended since the call began
AppendedIndices == (init_len + 1)..Len(history)

AssistantIndices == {i \in AppendedIndices : history[i].role = "assistant"}

\* a message that asks for at least one tool call
HasToolCalls(msg) == ~msg.tool_calls.null /\ msg.tool_calls.items # <<>>

Terminated == pc \in {"done", "error"}

BudgetAtLeastOne == options.max_turns.inf \/ options.max_turns.n >= 1

\* C1: with max_turns = N a backend request is issued only while fewer than N
\* messages were appended to history since the call began; so a run issues at
\* most N requests and appends at most N assistant messages, whatever the
\* backend and the tools do (also when every assistant message asks for tools).
C1_TurnBudget ==
    /\ [][Len(request') > Len(request)
            => LessThan(Len(history) - init_len, options.max_turns)]_vars
    /\ [](~options.max_turns.inf
            => /\ Len(request) <= options.max_turns.n
               /\ Cardinality(AssistantIndices) <= options.max_turns.n)

\* a run of budget 3 that the budget stopped after two turns, every assistant
\* message of which asked for a tool call
C1_Witness ==
    /\ options.max_turns = Finite(3)
    /\ pc = "done"
    /\ last = "Finish"
    /\ Len(request) = 2
    /\ Cardinality(AssistantIndices) = 2
    /\ \A i \in AssistantIndices : HasToolCalls(history[i])

\* C2: with execute_tools = false and max_turns >= 1 the run sends one request,
\* appends one assistant message, invokes no tool function and ends right
\* after that message, whether or not it asked for tool calls, streamed or
\* not (a request the backend fails appends nothing; it is still the only one).
C2_NoToolExecution ==
    (~options.execute_tools /\ BudgetAtLeastOne) =>
        /\ Len(request) <= 1
        /\ invoked = <<>>
        /\ pc \notin {"dispatch", "invoking"}
        /\ Len(history) - init_len <= 1
        /\ (Len(history) - init_len = 1 => pc = "done")
        /\ (pc = "done" =>
               /\ Len(request) = 1
               /\ Cardinality(AssistantIndices) = 1
               /\ Len(history) = init_len + 1
               /\ response.messages = <<history[Len(history)]>>)

\* a streamed run with execute_tools = false that ended on a message asking
\* for tool calls
C2_Witness ==
    /\ ~options.execute_tools
    /\ options.stream
    /\ pc = "done"
    /\ Len(history) = init_len + 1
    /\ HasToolCalls(history[Len(history)])

\* C3: provided every backend call and tool function returns, a run with a
\* finite max_turns terminates (with a Response or an error), and a run with
\* max_turns = Infinity ends at the first assistant message that has no tool
\* calls.
C3_Terminates ==
    /\ (~options.max_turns.inf => <>Terminated)
    /\ []((options.max_turns.inf
           /\ \E i \in AssistantIndices : ~HasToolCalls(history[i]))
          => pc = "done")

\* C4: handleToolCalls is entered only right after an assistant message with
\* at least one tool call was appended while execute_tools is true, and every
\* other appended assistant message ends the run; after the end nothing more
\* is requested or invoked; every request but the first directly follows a
\* completed dispatch.
C4_DispatchOnlyOnToolCalls ==
    /\ [][(history' # history /\ last' \in {"Completion", "StreamEnd"})
            => IF HasToolCalls(history'[Len(history')]) /\ options.execute_tools
               THEN pc' = "dispatch" ELSE pc' = "done"]_vars
    /\ [][(pc' = "dispatch" /\ pc \notin {"dispatch", "invoking"})
            => /\ last' \in {"Completion", "StreamEnd"}
               /\ history' # history
               /\ HasToolCalls(history'[Len(history')])
               /\ options.execute_tools]_vars
    /\ [][pc = "done" => (request' = request /\ invoked' = invoked)]_vars
    /\ [][(Len(request') > Len(request) /\ Len(request) >= 1)
            => last = "DispatchEnd"]_vars

\* --- what the tools of a turn handed back ---
\* the entries of settled that belong to the dispatch of turn k
SettledOf(k) == {j \in 1..Len(settled) : settled[j].turn = k}

\* the function ran and its value was turned into a Result
Succeeded(raw) == raw.kind \in {"string", "agent", "result"}

CarriesAgent(raw) == Succeeded(raw) /\ raw.agent # Undefined

\* the agent of the last call of turn k that succeeded with an agent
HandoffOf(k) ==
    LET js == {j \in SettledOf(k) : CarriesAgent(settled[j].raw)} IN
    IF js = {} THEN Undefined
    ELSE settled[CHOOSE j \in js : \A i \in js : i <= j].raw.agent

\* C5: one agent is active at every moment; the active agent changes only
\* when a dispatch ends in which a successfully executed tool returned that
\* agent, so a turn whose calls all fail or return no agent leaves it as it was.
C5_ActiveAgent ==
    /\ [](active_agent \in AgentNames)
    /\ [][active_agent' # active_agent
            => /\ pc = "dispatch" /\ pc' = "loop"
               /\ \E j \in SettledOf(Len(request)) :
                     /\ CarriesAgent(settled[j].raw)
                     /\ settled[j].raw.agent = active_agent']_vars
    /\ [][(pc = "dispatch" /\ pc' = "loop" /\ HandoffOf(Len(request)) = Undefined)
            => active_agent' = active_agent]_vars

\* a dispatch has just ended and made B the active agent
C5_Witness ==
    /\ last = "DispatchEnd"
    /\ options.agent = "A"
    /\ active_agent = "B"

\* C6: when the tools of turn k hand over to agent B (the last agent returned
\* in that turn), the request of turn k+1 is built from B (B's instructions
\* resolved against the context as the system message, B's model unless a
\* model override is given, B's tools), the tool calls of turn k+1 are looked
\* up in B's functions, and the Response names the agent of the last handoff.
C6_HandoffTakesEffect ==
    LET k == Len(request)
        B == IF k >= 2 THEN HandoffOf(k - 1) ELSE Undefined
        final == IF \E t \in 1..k : HandoffOf(t) # Undefined
                 THEN HandoffOf(CHOOSE t \in 1..k :
                          /\ HandoffOf(t) # Undefined
                          /\ \A u \in 1..k : HandoffOf(u) # Undefined => u <= t)
                 ELSE options.agent
    IN /\ (last = "Request" /\ B # Undefined) =>
             /\ request[k].model = (IF options.model_override # ""
                                    THEN options.model_override ELSE Agent(B).model)
             /\ request[k].messages[1].role = "system"
             /\ request[k].messages[1].content = Instructions(Agent(B), ctx_vars)
             /\ request[k].tools = Tools(Agent(B))
       /\ (pc \in {"dispatch", "invoking"} /\ B # Undefined) =>
             /\ active_agent = B
             /\ functions = Agent(B).functions
       /\ (pc = "done" => response.agent = final)

\* the second request went out after a tool of the first turn returned B, with
\* no model override
C6_Witness ==
    /\ last = "Request"
    /\ Len(request) = 2
    /\ HandoffOf(1) = "B"
    /\ options.model_override = ""

\* the context updates of the successful calls of turn k, by position in settled
UpdateOf(j) ==
    IF Succeeded(settled[j].raw) THEN settled[j].raw.context_variables ELSE EmptyObject

\* pre overridden by the updates of turn k in order: the last update naming a
\* key gives its value, a key no update names keeps its value
Overridden(pre, k) ==
    LET named == UNION {DOMAIN UpdateOf(j) : j \in SettledOf(k)} IN
    [key \in (DOMAIN pre) \cup named |->
        IF key \in named
        THEN LET js == {j \in SettledOf(k) : key \in DOMAIN UpdateOf(j)}
             IN UpdateOf(CHOOSE j \in js : \A i \in js : i <= j)[key]
        ELSE pre[key]]

\* C7: when a dispatch ends, the shared context is the context before it
\* overridden by the context updates of its successfully executed calls in
\* request order (a later call wins a key, unnamed keys keep their value); no
\* key is ever removed during the run.
C7_ContextMerge ==
    /\ [][(pc = "dispatch" /\ pc' = "loop")
            => ctx_vars' = Overridden(ctx_vars, Len(request))]_vars
    /\ [][(DOMAIN ctx_vars) \subseteq (DOMAIN ctx_vars')]_vars

\* a dispatch of two calls returning {a: 1} and {b: 2} has ended
C7_Witness ==
    /\ last = "DispatchEnd"
    /\ Len(settled) = 2
    /\ settled[1].raw = RawResult([a |-> 1], Undefined)
    /\ settled[2].raw = RawResult([b |-> 2], Undefined)
    /\ settled[1].turn = settled[2].turn
    /\ ctx_vars = [a |-> 1, b |-> 2, c |-> 0]

\* --- one iteration of the dispatch loop ---
Registered(name, agent) ==
    \E i \in 1..Len(Agent(agent).functions) : Agent(agent).functions[i] = name

AtToolCall == pc = "dispatch" /\ tc_index <= Len(tool_calls)

\* the iteration added exactly the tool message msg' and nothing else, did not
\* raise, and the loop goes on with the next call
OnlyPushed(id) ==
    /\ Len(partialResponse'.messages) = Len(partialResponse.messages) + 1
    /\ SubSeq(partialResponse'.messages, 1, Len(partialResponse.messages))
          = partialResponse.messages
    /\ partialResponse'.messages[Len(partialResponse'.messages)].role = "tool"
    /\ partialResponse'.messages[Len(partialResponse'.messages)].tool_call_id = id
    /\ partialResponse'.context_variables = partialResponse.context_variables
    /\ partialResponse'.agent = partialResponse.agent
    /\ pc' = "dispatch"
    /\ tc_index' = tc_index + 1
    /\ response' = response
    /\ history' = history /\ ctx_vars' = ctx_vars /\ active_agent' = active_agent

DispatchDoneWithBudget ==
    /\ last = "DispatchEnd"
    /\ LessThan(Len(history) - init_len, options.max_turns)

HasMessageWith(part) ==
    \E i \in 1..Len(partialResponse.messages) :
        Contains(partialResponse.messages[i].content, part)

\* C9: when the arguments of a call to a registered tool fail validation (the
\* required parameter is missing), the function is not invoked, exactly one
\* tool message carrying the validation error is produced for that call, no
\* context update or handoff comes of it, the loop goes on to the next call,
\* and the run goes on: the next request is sent when the dispatch has ended
\* (as long as the loop condition holds).
C9_ValidationFailure ==
    /\ [][(/\ AtToolCall
           /\ Registered(tool_calls[tc_index].function.name, active_agent)
           /\ tool_calls[tc_index].function.arguments = ArgsMissing)
            => /\ OnlyPushed(tool_calls[tc_index].id)
               /\ partialResponse'.messages[Len(partialResponse'.messages)].content
                     = <<"Error: ", "Validation failed for function '">>
                       \o tool_calls[tc_index].function.name
                       \o <<"': ", "Missing required property at '", "x", "'">>
               /\ invoked' = invoked]_vars
    /\ [][(DispatchDoneWithBudget /\ HasMessageWith(<<"Validation failed for function '">>))
            => Len(request') = Len(request) + 1]_vars

\* a second request was sent after a turn with a validation failure
C9_Witness ==
    /\ last = "Request"
    /\ Len(request) = 2
    /\ HasMessageWith(<<"Validation failed for function '">>)
    /\ invoked = <<>>

SpanEndedWithError ==
    LET e == langfuse.events
        opened == {i \in 1..Len(e) : e[i].op = "generation"}
        ended == {i \in 1..Len(e) : e[i].op = "generation.end"}
    IN /\ Cardinality(opened) = Cardinality(ended)
       /\ Len(e) >= 3
       /\ e[Len(e) - 2] = GenerationEvent
       /\ e[Len(e) - 1] = GenerationEnd("ERROR")
       /\ e[Len(e)] = TraceUpdate("error")

\* C11: when a tool returns a value that is neither a Result nor an Agent and
\* that String() cannot convert, the run ends with an error for the caller: no
\* tool message is made for that call, no further request is sent and no
\* Response is returned.
C11_CoercionErrorFatal ==
    /\ [][(pc = "invoking" /\ pc' # "invoking"
           /\ settled'[Len(settled')].raw.kind = "uncoercible")
            => /\ pc' = "error"
               /\ response'.kind \notin {"none", "response"}
               /\ partialResponse'.messages = partialResponse.messages]_vars
    /\ [][(\E j \in 1..Len(settled) : settled[j].raw.kind = "uncoercible")
            => (request' = request /\ response'.kind # "response")]_vars

\* C12: when the backend rejects a request, the run ends with that error for
\* the caller and appends nothing; after an error of the backend (a rejected
\* request or a broken stream) nothing more is requested, dispatched or
\* invoked, so the request is not retried; with a sink set, the span of the
\* rejected request was ended with level ERROR before the error left the run.
C12_BackendErrorFatal ==
    /\ [][last' = "BackendError"
            => /\ pc = "requesting"
               /\ pc' = "error"
               /\ response'.kind = "backend error"
               /\ request' = request
               /\ history' = history
               /\ invoked' = invoked
               /\ ctx_vars' = ctx_vars]_vars
    /\ [][(last \in {"BackendError", "StreamError"})
            => /\ request' = request
               /\ invoked' = invoked
               /\ history' = history
               /\ response' = response
               /\ pc' = "error"]_vars
    /\ []((last = "BackendError" /\ langfuse.enabled) => SpanEndedWithError)
    /\ [](pc = "error" => (response.kind \notin {"none", "response"} /\ ~ENABLED Next))

\* the backend rejected the second request of a run with a sink
C12_Witness ==
    /\ last = "BackendError"
    /\ langfuse.enabled
    /\ Len(request) = 2
    /\ response.kind = "backend error"

\* C13: whatever the run does (streamed or not, ending with a Response or an
\* error), the caller's messages list and context_variables object keep the
\* value they were passed with: history and ctx_vars are objects of their own,
\* and every push and every merge goes to them.
C13_CallerDataUnchanged ==
    /\ heap[MessagesRef] = options.messages
    /\ heap[ContextRef] = options.context_variables
    /\ HistoryRef \notin {MessagesRef, ContextRef}
    /\ CtxVarsRef \notin {MessagesRef, ContextRef}
    /\ heap[HistoryRef] = history
    /\ heap[CtxVarsRef] = ctx_vars

\* a streamed run ended by an error after it appended messages and merged
\* context updates
C13_Witness ==
    /\ options.stream
    /\ pc = "error"
    /\ Len(history) > init_len + 1
    /\ ctx_vars # options.context_variables
    /\ heap[MessagesRef] = <<UserMessage>>

\* C14: on normal termination the Response carries exactly the messages
\* appended since the call began, in append order (none of the caller's
\* messages, no system message), the agent active at the end and the shared
\* context at the end.
C14_ResponseContent ==
    pc = "done" =>
        /\ response.kind = "response"
        /\ SubSeq(history, 1, init_len) = options.messages
        /\ options.messages \o response.messages = history
        /\ Len(response.messages) = Len(history) - init_len
        /\ \A i \in 1..Len(response.messages) :
               response.messages[i].role \in {"assistant", "tool"}
        /\ response.agent = active_agent
        /\ response.context_variables = ctx_vars

\* a run ended with three or more messages, agent B and a changed context
C14_Witness ==
    /\ pc = "done"
    /\ Len(response.messages) >= 3
    /\ response.agent = "B"
    /\ response.context_variables = [a |-> 0, b |-> 2, c |-> 0]

\* C15: history is append-only (each step leaves the previous history as a
\* prefix), every completed backend request appends exactly one assistant
\* message, and each request of a run is sent with a longer history than the
\* one before it.
C15_AppendOnly ==
    /\ [][/\ Len(history') >= Len(history)
          /\ SubSeq(history', 1, Len(history)) = history]_vars
    /\ [][last' \in {"Completion", "StreamEnd"}
            => /\ Len(history') = Len(history) + 1
               /\ history'[Len(history')].role = "assistant"]_vars
    /\ [][(Len(history') > Len(history) /\ history'[Len(history) + 1].role = "assistant")
            => (last' \in {"Completion", "StreamEnd"} /\ Len(history') = Len(history) + 1)]_vars
    /\ [](\A k \in 1..(Len(request) - 1) :
             Len(request[k + 1].messages) > Len(request[k].messages))

\* a third request was sent: two turns are complete
C15_Witness ==
    /\ last = "Request"
    /\ Len(request) = 3
    /\ Cardinality(AssistantIndices) = 2

\* --- the two modes side by side ---
\* the fragments a streaming backend sends for the assistant message it would
\* return in one piece: the role, the content piece by piece, the tool calls
RECURSIVE ContentChunks(_)
ContentChunks(content) ==
    IF content = <<>> THEN <<>>
    ELSE <<[content |-> <<Head(content)>>]>> \o ContentChunks(Tail(content))

FragmentsOf(messageData) ==
    <<[role |-> "assistant", content |-> <<>>]>>
    \o ContentChunks(messageData.content)
    \o ToolCallChunks(messageData.tool_calls.items, 1)

\* for await (const chunk of completion) { ...; mergeChunk(message, delta) }
RECURSIVE MergeAll(_, _)
MergeAll(msg, chunks) ==
    IF chunks = <<>> THEN msg
    ELSE MergeAll(MergeChunk(msg, Head(chunks)), Tail(chunks))

\* the message runAndStream pushes when the stream delivers these fragments
StreamedMessage(messageData) ==
    LET merged_message ==
            MergeAll([content |-> <<>>, sender |-> Agent(options.agent).name,
                      role |-> "assistant", tool_calls |-> EmptyObject],
                     FragmentsOf(messageData))
    IN [merged_message EXCEPT !.tool_calls = NormalizeToolCalls(@)]

InFlight == Len(invoked) - Len(settled)

\* C17: at most one tool function is in flight at any time, and none while a
\* backend request is out or is being sent; the calls of a turn are taken in
\* request order, and call k+1 is not looked at before call k, its awaited
\* result included, has left its tool message.
C17_SequentialDispatch ==
    /\ [](InFlight \in {0, 1})
    /\ [](InFlight = 1 <=> pc = "invoking")
    /\ [](pc \in {"requesting", "streaming"} => InFlight = 0)
    /\ [][Len(request') > Len(request) => (InFlight = 0 /\ pc = "loop")]_vars
    /\ []((pc \in {"dispatch", "invoking"})
           => /\ Len(partialResponse.messages) = tc_index - 1
              /\ \A i \in 1..(tc_index - 1) :
                     partialResponse.messages[i].tool_call_id = tool_calls[i].id)
    /\ [][Len(invoked') > Len(invoked)
            => /\ InFlight = 0
               /\ invoked' = Append(invoked, tool_calls[tc_index].id)
               /\ \A j \in 1..Len(invoked) : invoked[j] < tool_calls[tc_index].id]_vars
    /\ [][Len(settled') > Len(settled)
            => /\ settled'[Len(settled')].call = invoked[Len(invoked)]
               /\ tc_index' = tc_index + 1]_vars

\* the second call of a turn is in flight, the first has settled
C17_Witness ==
    /\ pc = "invoking"
    /\ tc_index = 2
    /\ Len(settled) = 1
    /\ settled[1].call = tool_calls[1].id
    /\ invoked = <<tool_calls[1].id, tool_calls[2].id>>

\* --- two runs ---
RECURSIVE AssignAll(_, _)
AssignAll(object, updates) ==
    IF updates = <<>> THEN object
    ELSE AssignAll(ObjectAssign(object, Head(updates)), Tail(updates))

OtherStep == other' # other

\* C18: two runs on the same messages list and the same context_variables
\* object, interleaved at their suspension points, share no object: a step of
\* one run leaves the history, the context and the Response of the other as
\* they were, so each run's history is the caller's messages followed by its
\* own appends and its context is the caller's context overridden by its own
\* updates.
C18_RunsIsolated ==
    /\ [](Cardinality({MessagesRef, ContextRef, HistoryRef, CtxVarsRef,
                        OtherHistoryRef, OtherCtxVarsRef}) = 6)
    /\ [][OtherStep => /\ history' = history
                       /\ ctx_vars' = ctx_vars
                       /\ response' = response]_vars
    /\ [][(~OtherStep /\ other.pc # "idle")
            => /\ heap'[OtherHistoryRef] = heap[OtherHistoryRef]
               /\ heap'[OtherCtxVarsRef] = heap[OtherCtxVarsRef]]_vars
    /\ [](other.pc # "idle"
            => /\ heap[OtherHistoryRef] = options.messages \o other.appended
               /\ heap[OtherCtxVarsRef]
                     = AssignAll(options.context_variables, other.updates))
    /\ [](other.pc = "done"
            => /\ other.response.messages = other.appended
               /\ other.response.context_variables
                     = AssignAll(options.context_variables, other.updates))
    /\ [](/\ heap[HistoryRef] = history
          /\ heap[CtxVarsRef] = ctx_vars
          /\ \A i \in 1..Len(history) : history[i] \notin OtherMessages
          /\ \A key \in DOMAIN ctx_vars : ctx_vars[key] # 7)
    /\ [](pc = "done" => response = Response(history, init_len, active_agent, ctx_vars))

\* both runs are under way: the first is suspended in a tool call of its
\* second turn, having merged a context update, while the second has pushed a
\* message and merged an update of its own
C18_Witness ==
    /\ pc = "invoking"
    /\ Len(request) = 2
    /\ ctx_vars = [a |-> 1, c |-> 0]
    /\ other.pc = "running"
    /\ Len(other.appended) = 1
    /\ heap[OtherCtxVarsRef] = [a |-> 7, c |-> 0]

\* --- the delta merger ---
\* the string fragments the first n deltas carry for a field, joined in
\* arrival order
RECURSIVE FieldFragments(_, _)
FieldFragments(key, n) ==
    IF n = 0 THEN <<>>
    ELSE FieldFragments(key, n - 1)
         \o (IF key \in DOMAIN deltas[n] /\ IsString(deltas[n][key])
             THEN deltas[n][key] ELSE <<>>)

\* the accumulator's string before the first delta, the empty string if the
\* field was no string or was not there
InitialString(key) ==
    IF key \in DOMAIN initialResponse /\ IsString(initialResponse[key])
    THEN initialResponse[key] ELSE <<>>

\* a string field of the accumulator is its initial string followed by its
\* fragments
Concatenated(key) ==
    (key \in DOMAIN finalResponse /\ IsString(finalResponse[key]))
        => finalResponse[key] = InitialString(key) \o FieldFragments(key, merged)

\* merging two deltas one after the other gives the string that merging one
\* delta with the two fragments joined gives
TwoAsOne(key) ==
    \A d1, d2 \in Deltas :
        (/\ key \in (DOMAIN d1) \cap (DOMAIN d2)
         /\ IsString(d1[key])
         /\ IsString(d2[key]))
            => MergeChunk(MergeChunk(finalResponse, d1), d2)[key]
               = MergeChunk(finalResponse, [d1 EXCEPT ![key] = d1[key] \o d2[key]])[key]

RECURSIVE ArrivedFragments(_)
ArrivedFragments(n) ==
    IF n = 0 THEN <<>>
    ELSE ArrivedFragments(n - 1)
         \o (IF "tool_calls" \in DOMAIN deltas[n] THEN deltas[n].tool_calls ELSE <<>>)

\* the pieces of one field of the function of tool call index, joined in
\* arrival order
RECURSIVE FunctionFragments(_, _, _)
FunctionFragments(fragments, index, field) ==
    IF fragments = <<>> THEN <<>>
    ELSE (IF /\ Head(fragments).index = index
             /\ "function" \in DOMAIN Head(fragments)
             /\ field \in DOMAIN Head(fragments).function
          THEN Head(fragments).function[field] ELSE <<>>)
         \o FunctionFragments(Tail(fragments), index, field)

ArrivedIndices ==
    {ArrivedFragments(merged)[j].index : j \in 1..Len(ArrivedFragments(merged))}

\* message.tool_calls after the stream: Object.values of the indexed mapping,
\* the list whose map(...) runAndStream hands to handleToolCalls
DispatchList == NormalizeToolCalls(finalResponse.tool_calls).items

\* C20: however the tool-call fragments of different indices are interleaved,
\* the merged message has one tool call per index that occurred, the name and
\* the arguments of each are the pieces of its own index joined in arrival
\* order, and the list handed to dispatch has the calls by ascending index.
C20_ToolCallsByIndex ==
    LET calls == finalResponse.tool_calls
        arrived == ArrivedFragments(merged)
    IN /\ DOMAIN calls = ArrivedIndices
       /\ \A i \in ArrivedIndices :
             \A field \in {"name", "arguments"} :
                IF field \in DOMAIN calls[i].function
                THEN calls[i].function[field] = FunctionFragments(arrived, i, field)
                ELSE FunctionFragments(arrived, i, field) = <<>>
       /\ Len(DispatchList) = Cardinality(ArrivedIndices)
       /\ \A k \in 1..Len(DispatchList) :
             LET i == CHOOSE i \in ArrivedIndices :
                          Cardinality({j \in ArrivedIndices : j < i}) = k - 1
             IN DispatchList[k] = calls[i]

\* call 1 opened before call 0, and their argument pieces came in one delta,
\* those of call 1 first
C20_Witness ==
    /\ merged = 3
    /\ deltas = <<[tool_calls |-> <<OpeningFragment(1)>>],
                  [tool_calls |-> <<OpeningFragment(0)>>],
                  [content |-> JSNull,
                   tool_calls |-> <<ArgumentFragment(1), ArgumentFragment(0)>>]>>
    /\ Len(DispatchList) = 2
    /\ ToolCallObjects(DispatchList)[1].function = [name |-> <<"ca">>, arguments |-> <<"{x:">>]
    /\ ToolCallObjects(DispatchList)[2].function = [name |-> <<"cb">>, arguments |-> <<"1}">>]

\* --- the events of a streamed run ---
\* the positions in events of the terminal events, {response}
ResponseEvents == {i \in 1..Len(events) : "response" \in DOMAIN events[i]}

\* C21: a streamed run that ended without a fatal error has yielded exactly one
\* terminal event, it is the last event, and the Response it carries holds the
\* messages appended since the start, the final active agent and the final
\* context variables; before the end no terminal event is yielded, and after
\* it no event follows.
C21_OneTerminalEvent ==
    /\ [](options.stream /\ pc = "done"
            => /\ ResponseEvents = {Len(events)}
               /\ events[Len(events)].response
                      = [kind |-> "response",
                         messages |-> SubSeq(history, init_len + 1, Len(history)),
                         agent |-> active_agent,
                         context_variables |-> ctx_vars])
    /\ [](pc # "done" => ResponseEvents = {})
    /\ [][ResponseEvents # {} => events' = events]_vars

\* a streamed run ended after a dispatch that handed off to B and changed the
\* context
C21_Witness ==
    /\ options.stream
    /\ pc = "done"
    /\ active_agent = "B"
    /\ ctx_vars # options.context_variables
    /\ Len(history) - init_len >= 3
    /\ events[Len(events)].response.agent = "B"

\* --- schema validation ---
\* the paths of the required parameters a value lacks: at this level, in the
\* nested objects and in the elements of arrays the schema describes
RECURSIVE MissingPaths(_, _, _)
MissingPaths(value, param, path) ==
    IF param.type = "object" /\ value.type = "object" /\ "properties" \in DOMAIN param
    THEN {PropertyPath(path, k) :
             k \in {j \in DOMAIN param.properties :
                       param.properties[j].required /\ j \notin DOMAIN value.v}}
         \cup UNION {MissingPaths(value.v[k], param.properties[k], PropertyPath(path, k)) :
                        k \in (DOMAIN value.v) \cap (DOMAIN param.properties)}
    ELSE IF param.type = "array" /\ value.type = "array" /\ "items" \in DOMAIN param
    THEN UNION {MissingPaths(value.v[i], param.items, path \o <<"[", IndexNames[i], "]">>) :
                   i \in 1..Len(value.v)}
    ELSE {}

MissingIn(mapping) ==
    MissingPaths(Obj(mapping), RootSchema(given_descriptor.parameters), <<>>)

\* C22: when a parameter declared required is absent from the argument
\* mapping, at the top level, inside a nested object or inside an object that
\* is an element of an array, validateArguments throws an error that names the
\* function and the path of a missing parameter; a mapping it returns lacks no
\* required parameter.
C22_MissingRequiredFails ==
    validation # EmptyObject
        => /\ MissingIn(given_args) # {}
                => /\ validation.threw
                   /\ Contains(validation.message,
                               <<"Validation failed for function '">>
                               \o given_descriptor.name \o <<"': ">>)
                   /\ \E path \in MissingIn(given_args) :
                         Contains(validation.message,
                                  <<"Missing required property at '">> \o path \o <<"'">>)
           /\ ~validation.threw => MissingIn(validation.value) = {}

\* --- the tool schemas of a request ---
\* the names in a schema's required list
RequiredNames(tool) ==
    {tool.function.parameters.required[i] :
        i \in 1..Len(tool.function.parameters.required)}

\* C23: no tool schema of any request has the reserved parameter
\* context_variables among its properties or in its required list, whatever
\* the descriptors of the agent's functions declare.
C23_ContextParameterHidden ==
    \A k \in 1..Len(request) :
        \A i \in 1..Len(request[k].tools) :
            /\ CTX_VARS_NAME \notin DOMAIN request[k].tools[i].function.parameters.properties
            /\ CTX_VARS_NAME \notin RequiredNames(request[k].tools[i])

\* a request went out for agent B, one of whose tools declares the reserved
\* parameter as optional and the other as required
C23_Witness ==
    /\ request # <<>>
    /\ active_agent = "B"
    /\ LET tools == request[Len(request)].tools
       IN /\ Len(tools) = 2
          /\ tools[1].function.name = <<"h">>
          /\ ~Descriptor(<<"h">>).parameters[CTX_VARS_NAME].required
          /\ tools[2].function.name = <<"g">>
          /\ Descriptor(<<"g">>).parameters[CTX_VARS_NAME].required
          /\ tools[2].function.parameters.required = <<"x">>
          /\ DOMAIN tools[2].function.parameters.properties = {"x"}

\* --- the observability sink ---
\* C24: a run without a sink, given the inputs of a run with a sink and a
\* backend and tools that behave as they did for that run, sends the same
\* requests, invokes the same tools, builds the same history and yields the
\* same events, step for step, is never left without a step it can take
\* before its end, and ends with the same Response or the same error.
C24_SinkHasNoInfluence ==
    twin # NoTwin
        => /\ IsPrefix(request, twin.request)
           /\ IsPrefix(invoked, twin.invoked)
           /\ IsPrefix(history, twin.history)
           /\ IsPrefix(events, twin.events)
           /\ pc \notin {"done", "error"} => ENABLED Repeat
           /\ pc \in {"done", "error"}
                => /\ environment = twin.environment
                   /\ request = twin.request
                   /\ invoked = twin.invoked
                   /\ history = twin.history
                   /\ events = twin.events
                   /\ response = twin.response

\* the run without a sink has ended as the run with a sink did, after a
\* dispatch in which a tool was invoked
C24_Witness ==
    /\ twin # NoTwin
    /\ ~langfuse.enabled
    /\ pc = "done"
    /\ Len(twin.request) = 2
    /\ twin.invoked # <<>>
    /\ response = twin.response

\* --- an empty tool-call list ---
\* the stream that the tape's entry i ends
StreamOf(i) ==
    CHOOSE j \in 1..i :
        /\ environment[j].what = "stream"
        /\ \A k \in (j + 1)..i : environment[k].what # "stream"

\* the backend's answer that the tape's entry i completes is an assistant
\* message with an empty tool-call list
EmptyListAnswered(i) ==
    IF environment[i].what = "message"
    THEN environment[i].message.tool_calls = Array(<<>>)
    ELSE IF environment[i].what = "end of stream"
    THEN environment[StreamOf(i)].calls = <<>>
    ELSE FALSE

\* C25: once the backend has answered with an assistant message whose
\* tool-call list is empty, streamed or not, the run is Done: that answer is
\* the last thing the backend did, nothing is dispatched and no request
\* follows.
C25_EmptyListIsNoList ==
    \A i \in 1..Len(environment) :
        EmptyListAnswered(i)
            => /\ pc = "done"
               /\ i = Len(environment)
               /\ tool_calls = <<>>

\* the part of it that holds: a stream without tool-call fragments
C25_StreamedEmptyList ==
    \A i \in 1..Len(environment) :
        (options.stream /\ EmptyListAnswered(i))
            => /\ pc = "done"
               /\ i = Len(environment)
               /\ history[Len(history)].tool_calls = Null

\* --- the reserved parameter ---
\* C26: a tool whose descriptor declares the reserved parameter is invoked
\* with the Shared Context under that name: the run's context variables with
\* the updates returned by the earlier calls of the same turn.
C26_ContextInjected ==
    (/\ pc = "invoking"
     /\ CTX_VARS_NAME \in DOMAIN Descriptor(tool_calls[tc_index].function.name).parameters)
        => /\ CTX_VARS_NAME \in DOMAIN validatedArgs
           /\ validatedArgs[CTX_VARS_NAME]
                 = JSONOf(ObjectAssign(ctx_vars, partialResponse.context_variables))

\* --- several handoffs in one turn ---
\* C27: while the calls of a turn are dispatched the pending agent is the
\* agent returned by the last call so far that succeeded with one, and when
\* the dispatch ends with a pending agent that agent becomes the active one:
\* a later call that returns no agent, or fails, leaves an earlier handoff
\* standing, and a later handoff replaces it.
C27_LastHandoffWins ==
    /\ [](pc \in {"dispatch", "invoking"}
            => partialResponse.agent = HandoffOf(Len(request)))
    /\ [][(pc = "dispatch" /\ pc' = "loop" /\ HandoffOf(Len(request)) # Undefined)
            => active_agent' = HandoffOf(Len(request))]_vars

\* a dispatch of two calls has ended: the first returned agent B, the second
\* did not return an agent, and B is the active agent
C27_Witness ==
    /\ last = "DispatchEnd"
    /\ Len(request) = 1
    /\ Len(settled) = 2
    /\ settled[1].raw = RawAgent("B")
    /\ ~CarriesAgent(settled[2].raw)
    /\ active_agent = "B"

\* --- id and type of a streamed tool call ---
\* the value of field in the first arrived fragment of tool call index that
\* carries the field
FirstCarried(index, field) ==
    LET arrived == ArrivedFragments(merged)
        js == {j \in 1..Len(arrived) :
                  arrived[j].index = index /\ field \in DOMAIN arrived[j]}
    IN IF js = {} THEN Undefined
       ELSE arrived[CHOOSE j \in js : \A i \in js : j <= i][field]

\* C28: for every tool-call index the id and the type of the accumulated tool
\* call are those of the first fragment of that index that carried them,
\* whatever came in later fragments of the index.
C28_IdAndTypeOfFirstFragment ==
    \A index \in DOMAIN finalResponse.tool_calls :
        /\ finalResponse.tool_calls[index].id = FirstCarried(index, "id")
        /\ finalResponse.tool_calls[index].type = FirstCarried(index, "type")

\* what the code does: the last fragment that carried the field gives it
LastCarried(index, field) ==
    LET arrived == ArrivedFragments(merged)
        js == {j \in 1..Len(arrived) :
                  arrived[j].index = index /\ field \in DOMAIN arrived[j]}
    IN IF js = {} THEN Undefined
       ELSE arrived[CHOOSE j \in js : \A i \in js : i <= j][field]

C28_IdAndTypeOfLastFragment ==
    \A index \in DOMAIN finalResponse.tool_calls :
        /\ finalResponse.tool_calls[index].id = LastCarried(index, "id")
        /\ finalResponse.tool_calls[index].type = LastCarried(index, "type")

\* --- the messages of a request ---
\* C29: the messages of every request are one system message with the active
\* agent's instructions (those of a function are its answer for the context
\* variables as they are at that turn) followed by the history as it is, in
\* order; sending a request changes neither the history nor the keys of the
\* context variables, and no system message is in the history or in the
\* Response.
C29_SystemMessageThenHistory ==
    /\ [][request' # request
            => LET sent == request'[Len(request')].messages IN
               /\ Len(request') = Len(request) + 1
               /\ Len(sent) = 1 + Len(history)
               /\ sent[1].role = "system"
               /\ sent[1].content.text = Agent(active_agent).name
               /\ sent[1].content.context
                     = (IF Agent(active_agent).dynamic_instructions
                        THEN ctx_vars ELSE EmptyObject)
               /\ SubSeq(sent, 2, Len(sent)) = history
               /\ history' = history
               /\ DOMAIN ctx_vars' = DOMAIN ctx_vars
               /\ DOMAIN heap'[CtxVarsRef] = DOMAIN heap[CtxVarsRef]]_vars
    /\ [](\A i \in 1..Len(history) : history[i].role # "system")
    /\ [](pc = "done"
            => \A i \in 1..Len(response.messages) : response.messages[i].role # "system")

\* the second request went out for agent B, whose instructions are a function,
\* after the first turn's tool had updated the context variables
C29_Witness ==
    /\ last = "Request"
    /\ Len(request) = 2
    /\ active_agent = "B"
    /\ Agent("B").dynamic_instructions
    /\ ctx_vars # options.context_variables
    /\ request[2].messages[1].content.context = ctx_vars
    /\ Len(request[2].messages) = 1 + Len(history)
    /\ Len(history) >= 3

\* --- the raw events of a stream ---
\* the chunk the backend delivered at entry j of the tape
ChunkAt(j) == Chunks(environment[StreamOf(j)].calls)[j - StreamOf(j)]

\* the chunks taken from the backend up to entry n of the tape, in order
RECURSIVE TakenChunks(_)
TakenChunks(n) ==
    IF n = 0 THEN <<>>
    ELSE TakenChunks(n - 1)
         \o (IF environment[n].what = "chunk" THEN <<ChunkAt(n)>> ELSE <<>>)

\* the events that are neither delimiters nor the terminal event
RawEvents ==
    LET IsRaw(e) == "delim" \notin DOMAIN e /\ "response" \notin DOMAIN e
    IN SelectSeq(events, IsRaw)

WithoutSender(event) == [k \in (DOMAIN event) \ {"sender"} |-> event[k]]

\* C30: at every moment of a streamed run the raw events yielded so far are
\* the chunks taken from the backend so far, one event per chunk and in the
\* order of the chunks, so the event of a chunk is out before the next chunk
\* is taken; and when the assistant message of a turn is appended to the
\* history the stream has no chunk left and the last event yielded before the
\* closing delimiter is that of its last chunk.
C30_OneRawEventPerChunk ==
    /\ [](options.stream
            => LET taken == TakenChunks(Len(environment)) IN
               /\ Len(RawEvents) = Len(taken)
               /\ \A j \in 1..Len(taken) : WithoutSender(RawEvents[j]) = taken[j])
    /\ [][(options.stream /\ Len(environment') > Len(environment)
              /\ environment'[Len(environment')].what = "chunk")
            => /\ Len(events') = Len(events) + 1
               /\ WithoutSender(events'[Len(events')]) = Head(completion)
               /\ history' = history]_vars
    /\ [][(options.stream /\ Len(history') > Len(history)
              /\ history'[Len(history) + 1].role = "assistant")
            => LET chunks == Chunks(environment[StreamOf(Len(environment))].calls) IN
               /\ completion = <<>>
               /\ Len(environment) - StreamOf(Len(environment)) = Len(chunks)
               /\ WithoutSender(events[Len(events)]) = chunks[Len(chunks)]]_vars

\* in the middle of a stream: two chunks were taken and their events are out,
\* a chunk is still to come, and the turn's assistant message is not in the
\* history
C30_Witness ==
    /\ pc = "streaming"
    /\ completion # <<>>
    /\ Len(RawEvents) = 2
    /\ Len(TakenChunks(Len(environment))) = 2
    /\ Len(history) = init_len

\* --- the run-item events ---
\* the events of one name, in the order they were emitted
Named(name) ==
    LET Is(e) == e.name = name IN SelectSeq(projected, Is)

\* the ids of the tool calls of the assistant messages in a history, in order
RECURSIVE RequestedIds(_)
RequestedIds(hist) ==
    IF hist = <<>> THEN <<>>
    ELSE (IF Head(hist).role = "assistant" /\ ~Head(hist).tool_calls.null
          THEN [i \in 1..Len(Head(hist).tool_calls.items) |->
                   Head(hist).tool_calls.items[i].id]
          ELSE <<>>)
         \o RequestedIds(Tail(hist))

\* handleToolCalls is under way, or was left by a fatal error
InDispatch == pc \in {"dispatch", "invoking"} \/ (pc = "error" /\ last = "ToolCall")

Told(op) == Cardinality({i \in 1..Len(langfuse.events) : langfuse.events[i].op = op})

\* the updates of the trace the sink was given, in order
TraceUpdates ==
    LET IsUpdate(e) == e.op = "trace.update" IN SelectSeq(langfuse.events, IsUpdate)

\* C32: with a sink, a run that is under way has a trace, which has no output
\* yet; a run that has ended has opened exactly one trace and has given it its
\* output exactly once: the Response after a normal end, the error after a
\* fatal one.
C32_OneTracePerRun ==
    langfuse.enabled
        => /\ pc \notin {"done", "error"}
                => (Told("trace") >= 1 /\ TraceUpdates = <<>>)
           /\ pc \in {"done", "error"} => Told("trace") = 1
           /\ pc = "done" => TraceUpdates = <<TraceUpdate("response")>>
           /\ pc = "error" => TraceUpdates = <<TraceUpdate("error")>>

\* the part of it that holds: the non-streamed run, and the finalization of
\* the trace runAndStream opens
C32_OneUpdatePerRun ==
    langfuse.enabled
        => /\ ~options.stream => Told("trace") = 1
           /\ options.stream => Told("trace") = 2
           /\ pc \notin {"done", "error"} => TraceUpdates = <<>>
           /\ pc = "done" => TraceUpdates = <<TraceUpdate("response")>>
           /\ pc = "error" => TraceUpdates = <<TraceUpdate("error")>>

\* --- the mappings validateArguments accepts ---
\* the value conforms to the schema: it has the declared type; the elements of
\* an array conform to the items; an object has the required properties and
\* its properties the schema knows conform; any other value is in the enum
RECURSIVE Conforms(_, _)
Conforms(value, param) ==
    /\ value.type = param.type
    /\ IF param.type = "array" /\ "items" \in DOMAIN param
       THEN \A i \in 1..Len(value.v) : Conforms(value.v[i], param.items)
       ELSE IF param.type = "object" /\ "properties" \in DOMAIN param
       THEN /\ \A k \in DOMAIN param.properties :
                  param.properties[k].required => k \in DOMAIN value.v
            /\ \A k \in (DOMAIN value.v) \cap (DOMAIN param.properties) :
                  Conforms(value.v[k], param.properties[k])
       ELSE "enum" \in DOMAIN param => value.v \in param.enum

ConformsTo(mapping, descriptor) == Conforms(Obj(mapping), RootSchema(descriptor.parameters))

\* C33: validateArguments throws exactly on the mappings that do not conform
\* to the descriptor (a value of another type than declared, a value outside
\* its enum, at the top level, in a nested object or in an array element, or a
\* required parameter that is absent), and the mapping it returns has every
\* key of the arguments, those the schema does not know with their values as
\* they were.
C33_AcceptsExactlyConforming ==
    validation # EmptyObject
        => /\ validation.threw <=> ~ConformsTo(given_args, given_descriptor)
           /\ ~validation.threw
                => /\ DOMAIN validation.value = DOMAIN given_args
                   /\ \A k \in (DOMAIN given_args) \ (DOMAIN given_descriptor.parameters) :
                         validation.value[k] = given_args[k]

\* the same, for descriptors and mappings without a name that every object
\* inherits a property of
C33_AcceptsExactlyConformingOwnNames ==
    ("constructor" \notin (DOMAIN given_args) \cup (DOMAIN given_descriptor.parameters))
        => C33_AcceptsExactlyConforming

\* C22 for mappings without a key of an inherited name
C22_MissingRequiredFailsOwnNames ==
    ("constructor" \notin (DOMAIN given_args) \cup (DOMAIN given_descriptor.parameters))
        => C22_MissingRequiredFails

(* ---------------- C34: agents and descriptors are read only -------------- *)
\* the requests built for an agent whose functions declare the reserved
\* parameter
HiddenFor(name) ==
    {i \in 1..Len(request) :
        /\ request[i].messages[1].content.text = name
        /\ \E j \in 1..Len(Agent(name).functions) :
              CTX_VARS_NAME \in DOMAIN Descriptor(Agent(name).functions[j]).parameters}

\* C34: no operation of a run modifies an Agent or its function descriptors:
\* at every point of a run every agent's name, model, instructions, functions
\* and descriptor parameters are what they were when the agent was made,
\* whatever schemas were built and stripped and whatever handoffs happened; a
\* handoff only changes which agent is active.
C34_AgentsUnmodified ==
    /\ [](\A n \in AgentNames : heap[AgentRef(n)] = AgentObject(n))
    /\ [][\A n \in AgentNames : heap'[AgentRef(n)] = heap[AgentRef(n)]]_vars

\* a run that handed off to B, sent a request with B's schemas stripped of the
\* reserved parameter, and ended
C34_Witness ==
    /\ pc = "done"
    /\ active_agent = "B"
    /\ options.agent = "A"
    /\ HiddenFor("B") # {}
    /\ \A i \in HiddenFor("B") : \A j \in 1..Len(request[i].tools) :
          CTX_VARS_NAME \notin DOMAIN request[i].tools[j].function.parameters.properties
    /\ heap[AgentRef("B")] = AgentObject("B")

(* ------------- C35: one tool message per call of the turn --------------- *)
\* msgs answers calls: one tool message per call, in the order of the calls,
\* each with the id of its call
Answers(msgs, calls) ==
    /\ Len(msgs) = Len(calls)
    /\ \A i \in 1..Len(calls) :
          /\ msgs[i].role = "tool"
          /\ msgs[i].tool_call_id = calls[i].id

\* the assistant messages with tool calls among msgs
Asking(msgs) ==
    {k \in 1..Len(msgs) : msgs[k].role = "assistant" /\ ~msgs[k].tool_calls.null}

\* C35: a dispatch that completes appends to history exactly one tool message
\* per tool call of the assistant message before it, in the order of the
\* calls, each carrying the tool_call_id of its call; and in a Response
\* returned with execute_tools true every assistant message with tool calls is
\* followed by its tool results, also when the turn budget ended the run right
\* after the dispatch.
C35_OneToolMessagePerCall ==
    /\ [][(pc = "dispatch" /\ pc' = "loop")
            => /\ history[Len(history)].role = "assistant"
               /\ tool_calls = history[Len(history)].tool_calls.items
               /\ Len(history') = Len(history) + Len(tool_calls)
               /\ SubSeq(history', 1, Len(history)) = history
               /\ Answers(SubSeq(history', Len(history) + 1, Len(history')),
                          tool_calls)]_vars
    /\ [](pc = "done" /\ options.execute_tools
            => \A k \in Asking(response.messages) :
                  LET calls == response.messages[k].tool_calls.items
                  IN /\ k + Len(calls) <= Len(response.messages)
                     /\ Answers(SubSeq(response.messages, k + 1, k + Len(calls)),
                                calls))

\* a Response whose last messages are the results of a turn of two calls: the
\* turn budget ended the run right after the dispatch
C35_Witness ==
    /\ pc = "done"
    /\ options.execute_tools
    /\ last = "Finish"
    /\ \E k \in Asking(response.messages) :
          /\ Len(response.messages[k].tool_calls.items) = 2
          /\ k + 2 = Len(response.messages)
          /\ response.messages[k + 1].tool_call_id # response.messages[k + 2].tool_call_id

(* ------------- C36: an unparseable payload ends the run ----------------- *)
\* the dispatch is at a call for a registered tool whose payload is no JSON
AtUnparseable ==
    /\ pc = "dispatch"
    /\ tc_index <= Len(tool_calls)
    /\ InFunctionMap(tool_calls[tc_index].function.name, functions)
    /\ tool_calls[tc_index].function.arguments = ArgsMalformed

\* C36: a tool call for a registered tool whose payload is not parseable JSON
\* is not recovered as a tool message: the SyntaxError ends the dispatch and
\* the run, the caller gets the error and no Response, and the tool results
\* the turn had already produced are not appended to history.
C36_ParseErrorIsFatal ==
    /\ [][AtUnparseable
            => /\ pc' = "error"
               /\ response'.kind = "SyntaxError"
               /\ partialResponse' = partialResponse
               /\ history' = history]_vars
    /\ [](pc = "error" /\ response.kind = "SyntaxError"
            => /\ history[Len(history)].role = "assistant"
               /\ response.messages = <<>>
               /\ \A i \in 1..Len(events) : "response" \notin DOMAIN events[i]
               /\ heap[MessagesRef] = options.messages)
    /\ [][pc = "error" => pc' = "error" /\ response' = response]_vars

\* the second call of a turn had an unparseable payload after the first call
\* had produced its result: the run ended with the error and the result is in
\* no history
C36_Witness ==
    /\ pc = "error"
    /\ response.kind = "SyntaxError"
    /\ tc_index = 2
    /\ Len(partialResponse.messages) = 1
    /\ settled # <<>>
    /\ \A i \in 1..Len(history) : history[i].role # "tool"

(* --------------- C37: the sender of an assistant message ---------------- *)
\* the assistant messages of history, in order: the k-th is the answer to the
\* k-th request
AssistantAt(hist) ==
    SelectSeq([i \in 1..Len(hist) |-> i],
              LAMBDA i : i > init_len /\ hist[i].role = "assistant")

\* C37: every assistant message appended to history carries as sender the name
\* of the agent that was active when its completion was requested (the agent
\* whose instructions head the request), in non-streamed and in streamed mode,
\* also in the turns after a handoff.
C37_SenderIsActiveAgent ==
    \A k \in 1..Len(AssistantAt(history)) :
        history[AssistantAt(history)[k]].sender = request[k].messages[1].content.text

\* the same in non-streamed mode only
C37_SenderIsActiveAgentNotStreamed ==
    ~options.stream => C37_SenderIsActiveAgent

\* a non-streamed run in which an assistant message was appended after a
\* handoff to B
C37_NotStreamedAfterHandoff ==
    /\ ~options.stream
    /\ options.agent = "A"
    /\ \E k \in 1..Len(AssistantAt(history)) :
          history[AssistantAt(history)[k]].sender = "B"

(* ------------- C38: the registry a turn's calls are resolved in --------- *)
\* the agent the present turn's request was built for
RequestAgent == request[Len(request)].messages[1].content.text

\* the iteration answered the call with the not-found tool message
AnsweredNotFound ==
    /\ Len(partialResponse'.messages) = Len(partialResponse.messages) + 1
    /\ partialResponse'.messages[Len(partialResponse'.messages)].content
          = NotFoundContent(tool_calls[tc_index].function.name)

\* C38: within one turn every tool call is resolved against the function
\* registry of the agent that was active when the turn's request was issued:
\* a call is answered "not found" exactly when that agent does not register
\* its name, also when an earlier call of the turn has returned another agent;
\* the new agent is active, and its functions used, from the next turn on.
C38_RegistryOfRequestingAgent ==
    /\ [](pc \in {"dispatch", "invoking"}
            => /\ functions = Agent(RequestAgent).functions
               /\ active_agent = RequestAgent)
    /\ [][AtToolCall
            => (AnsweredNotFound
                   <=> ~Registered(tool_calls[tc_index].function.name, RequestAgent))]_vars
    /\ [][(pc = "dispatch" /\ pc' = "loop" /\ partialResponse.agent # Undefined)
            => active_agent' = partialResponse.agent]_vars

\* in a turn of A the first call returned agent B and the second call, naming
\* a function of B that A does not have, was answered "not found"
C38_Witness ==
    /\ last = "ToolCall"
    /\ Len(request) = 1
    /\ RequestAgent = "A"
    /\ tc_index = 3
    /\ partialResponse.agent = "B"
    /\ Registered(tool_calls[2].function.name, "B")
    /\ partialResponse.messages[2].content = NotFoundContent(tool_calls[2].function.name)

(* ------------------ C39: the delimiters of a streamed run ---------------- *)
\* the positions in events of the delimiters, and of the last one before i
DelimEvents == {i \in 1..Len(events) : "delim" \in DOMAIN events[i]}

LastDelimBefore(i) ==
    LET before == {j \in DelimEvents : j < i}
    IN IF before = {} THEN "none"
       ELSE events[CHOOSE j \in before : \A k \in before : k <= j].delim

\* the delimiters yielded so far, in order
Delims == SelectSeq(events, LAMBDA e : "delim" \in DOMAIN e)

\* start and end alternate, a start first; deltas are yielded between a start
\* and its end only; a start is yielded when the request of a turn has returned
\* and before the first delta, nothing is invoked while a start is open, and
\* the response item comes after the last end
Alternating ==
    /\ [](/\ \A i \in 1..Len(Delims) :
                Delims[i].delim = IF i % 2 = 1 THEN "start" ELSE "end"
          /\ \A i \in (1..Len(events)) \ (DelimEvents \cup ResponseEvents) :
                LastDelimBefore(i) = "start"
          /\ \A i \in ResponseEvents :
                i = Len(events) /\ LastDelimBefore(i) \in {"end", "none"})
    /\ [][Len(Delims') > Len(Delims)
            => /\ SubSeq(events', 1, Len(events) + 1)
                     = Append(events, Delims'[Len(Delims')])
               /\ IF Delims'[Len(Delims')].delim = "start"
                  THEN pc = "requesting" /\ pc' = "streaming"
                       /\ Len(Delims') = 2 * Len(request) - 1
                  ELSE pc = "streaming" /\ completion = <<>>
                       /\ Len(Delims') = 2 * Len(request)]_vars
    /\ [][(options.stream /\ invoked' # invoked)
            => Len(Delims) = 2 * Len(request)]_vars

\* C39: in the sequence yielded by runAndStream every turn is bracketed: one
\* start after the turn's request has returned and before its first delta, one
\* end after its last delta and before any tool of the turn is invoked; start
\* and end alternate, and the response item comes after the last end. So
\* whenever no stream is being read every start has been followed by its end.
C39_EveryTurnBracketed ==
    /\ Alternating
    /\ [](options.stream /\ pc # "streaming" => Len(Delims) % 2 = 0)

\* C39 as the code has it: the turns whose stream is read to its end are
\* bracketed as stated; a turn whose stream throws has yielded its start and
\* yields no end, and the run ends with the error.
C39_CompletedTurnsBracketed ==
    /\ Alternating
    /\ [](options.stream /\ pc # "streaming" /\ response.kind # "stream error"
            => Len(Delims) % 2 = 0)
    /\ [](options.stream /\ response.kind = "stream error"
            => /\ Len(Delims) % 2 = 1
               /\ ResponseEvents = {})

\* a streamed run of two turns has ended: start, end, start, end, a tool was
\* invoked between the first end and the second start, and the response item
\* is the last event
C39_Witness ==
    /\ options.stream
    /\ pc = "done"
    /\ Len(Delims) = 4
    /\ invoked # <<>>
    /\ ResponseEvents = {Len(events)}
    /\ LastDelimBefore(Len(events)) = "end"

(* ---------------- C40: the conversation of runDemoLoop ------------------- *)
\* where in the conversation the user message of the k-th line stands, and
\* where the next user message stands (or the end of the list)
UserAt(k) ==
    CHOOSE i \in 1..Len(repl.messages) : repl.messages[i] = UserInput(k)

NextUserAt(k) ==
    IF k < Len(repl.runs) THEN UserAt(k + 1) ELSE Len(repl.messages) + 1

\* between the user message of the k-th line and the next user message stand
\* the messages of the Response to the k-th line, all of them once it has
\* returned and none before
TurnContiguous(k) ==
    SubSeq(repl.messages, UserAt(k) + 1, NextUserAt(k) - 1)
        = repl.runs[k].response.messages

\* the last line before the k-th whose run has not failed
Previous(k) ==
    LET earlier == {j \in 1..(k - 1) : repl.runs[j].pc # "failed"}
    IN IF earlier = {} THEN 0 ELSE CHOOSE j \in earlier : \A i \in earlier : i <= j

\* the run of the k-th line was given the agent that the Response to the
\* previous input returned (the starting agent for the first input)
AgentChained(k) ==
    IF Previous(k) = 0 THEN TRUE
    ELSE repl.runs[Previous(k)].pc = "returned"
            => repl.runs[k].agent = repl.runs[Previous(k)].response.agent

\* C40: in runDemoLoop the conversation list keeps turns contiguous: each user
\* message is followed by all messages of the Response to that very input
\* before the next user message appears, and the agent used for an input is
\* the agent returned by the previous input's Response, also when a line
\* arrives while the run of the previous line is still awaited.
C40_TurnsContiguous ==
    \A k \in 1..Len(repl.runs) : TurnContiguous(k) /\ AgentChained(k)

\* the handlers of all lines read so far have finished
Prompted ==
    \A k \in 1..Len(repl.runs) : repl.runs[k].pc \in {"returned", "failed"}

\* runDemoLoop with a user who types the next line when the handler of the
\* line before it has finished; under it C40_TurnsContiguous holds
OneAtATimeNext ==
    \/ Prompted /\ Line
    \/ \E k \in 1..Len(repl.runs) : Iterate(k)
    \/ \E k \in 1..Len(repl.runs) : Returns(k)
    \/ \E k \in 1..Len(repl.runs) : Throws(k)
    \/ Close

OneAtATimeSpec == ReplInit /\ [][OneAtATimeNext]_vars

\* two lines were read one after the other, each answered before the next
\* arrived, the first answer handing over to the other agent
C40_OneAtATimeReached ==
    /\ Len(repl.runs) = 2
    /\ Prompted
    /\ repl.runs[1].pc = "returned"
    /\ repl.runs[2].pc = "returned"
    /\ repl.runs[1].response.agent # repl.runs[1].agent
    /\ Len(repl.messages) = 5
====
